---- MODULE Spec2Model ----
(***************************************************************************)
(* Resumable chunked upload engine: the useS3Upload hook                   *)
(* (use-s3-upload.ts) and the useUpload hook (use-file-upload.ts).         *)
(*                                                                         *)
(* The hooks run on the JavaScript event loop.  A macrotask (a user call,  *)
(* an XHR event, a fetch response, a FileReader result) runs to completion *)
(* and is followed by the whole chain of promise continuations it has made *)
(* runnable.  The variable micro is that chain: the macrotask actions are  *)
(* enabled only while it is empty, and the continuation actions consume it *)
(* from the head.                                                          *)
(***************************************************************************)
EXTENDS Integers, Sequences, FiniteSets, TLC

\* ---- bounds of the model ------------------------------------------------
MaxFileSize == 4        \* largest file, in model bytes
MaxCalls == 3           \* startCalculateHash / startUpload / resumeUpload calls
MaxConcurrent == 2      \* largest value of the option `concurrent`
MaxPlanSize == 5        \* largest file handed to a chunk planner on its own
MaxPlanChunk == 3       \* largest chunkSize of a chunk planner on its own
MaxPlanIdx == 2         \* largest chunk index named in an uploadedChunks list
MaxPlanList == 3        \* longest uploadedChunks list
MaxTime == 13           \* last second of the clock of the speed tracker on its own
MaxTrackBytes == 1      \* largest byte count handed to the speed tracker on its own
MaxPassTime == 3        \* last second of the clock of a measured pass

\* ---- options of the hook --------------------------------------------------
chunkSize == 2          \* option chunkSize, in model bytes
hashChunkSize == 2      \* option hashChunkSize, in model bytes
retryTimes == 3         \* option retryTimes
speedHistoryMax == 10   \* samples kept in networkStats.speedHistory

VARIABLES
  concurrent,                                  \* option, fixed at construction
  currentFile, fileHash, chunks, uploadSession,
  isUploading, isPaused, isCompleted, isCalculatingHash, isCheckingUpload,
  isInitializing, isSecondTransfer,
  executingChunks,
  callers,       \* the pending async calls of the hook, by call number
  ncalls,        \* calls made so far
  markJobs,      \* unawaited createChunksAndMarkUploaded calls, by call number
  tasks,         \* chunk requests in flight: <<call, chunk index>>
  micro,         \* promise continuations made runnable by the current macrotask
  srvSession, srvParts, srvComplete,           \* the backend, for this fingerprint
  sent, okCount, failCount, nComplete,         \* request log
  uploadProgress, hashProgress, resumeInfo, networkStats,
  planner        \* one call of a chunk planner: its arguments and what it returned

vars == <<concurrent, currentFile, fileHash, chunks, uploadSession,
          isUploading, isPaused, isCompleted, isCalculatingHash, isCheckingUpload,
          isInitializing, isSecondTransfer, executingChunks, callers, ncalls,
          markJobs, tasks, micro, srvSession, srvParts, srvComplete,
          sent, okCount, failCount, nComplete,
          uploadProgress, hashProgress, resumeInfo, networkStats, planner>>

optVars == <<concurrent, planner>>
flagVars == <<isUploading, isPaused, isCompleted, isCalculatingHash,
              isCheckingUpload, isInitializing, isSecondTransfer>>
srvVars == <<srvSession, srvParts, srvComplete>>
logVars == <<sent, okCount, failCount, nComplete>>
statVars == <<uploadProgress, hashProgress, resumeInfo, networkStats>>

\* ---- arithmetic -----------------------------------------------------------
Min(a, b) == IF a < b THEN a ELSE b

\* Math.ceil(a / b) for a >= 0, b > 0
CeilDiv(a, b) == (a + b - 1) \div b

\* Math.round((loaded / total) * 100)
RoundPct(loaded, total) == (200 * loaded + total) \div (2 * total)

MaxChunks == CeilDiv(MaxFileSize, chunkSize)
ChunkIdx == 0 .. (MaxChunks - 1)
CallIds == 1 .. MaxCalls

\* ---- chunk planner --------------------------------------------------------
\* the chunk object pushed in iteration i, for the option chunkSize = cs
ChunkOf(i, size, cs, up) ==
  [index |-> i,
   start |-> i * cs,
   end |-> Min(i * cs + cs, size),
   uploaded |-> up,
   progress |-> IF up THEN 100 ELSE 0,
   retryCount |-> 0,
   ac |-> 0,                \* abortController: 0 = undefined, else the call that made it
   acAborted |-> FALSE]     \* abortController.signal.aborted

NewChunk(i, size, up) == ChunkOf(i, size, chunkSize, up)

\* a planner that rounds the chunk count down
createChunksFloorOf(size, cs) ==
  [k \in 1 .. (size \div cs) |-> ChunkOf(k - 1, size, cs, FALSE)]

createChunksFloor(size) == createChunksFloorOf(size, chunkSize)

\* createChunks(file) of a hook whose option chunkSize is cs
createChunksOf(size, cs) ==
  [k \in 1 .. CeilDiv(size, cs) |-> ChunkOf(k - 1, size, cs, FALSE)]

createChunks(size) == createChunksOf(size, chunkSize)

\* createChunksAndMarkUploaded(file, session) of a hook whose option chunkSize
\* is cs: the session's uploadedParts count decides the marking
createChunksAndMarkUploadedOf(size, cs, session) ==
  [k \in 1 .. CeilDiv(size, cs) |->
     ChunkOf(k - 1, size, cs, session.uploadedParts > k - 1)]

createChunksAndMarkUploaded(size, session) ==
  createChunksAndMarkUploadedOf(size, chunkSize, session)

\* ---- computed properties --------------------------------------------------
uploadedChunks == {k \in 1 .. Len(chunks) : chunks[k].uploaded}
remainingChunks == {k \in 1 .. Len(chunks) : ~chunks[k].uploaded}
totalChunks == Len(chunks)

\* ---- calls ----------------------------------------------------------------
\* err is the error a failed call has thrown, errChunk the chunk of a chunk error,
\* file the File the call has read from currentFile.value (its size)
NoCall == [kind |-> "none", pc |-> "none", pending |-> <<>>, pos |-> 1,
           executing |-> {}, stale |-> FALSE, err |-> "", errChunk |-> 0,
           file |-> 0]

Failed(cl, err, i) == [cl EXCEPT !.pc = "failed", !.err = err, !.errChunk = i]

\* the session of a check response, as far as the hook reads it; parts is the
\* part list the backend holds
NoSession == [uploadedParts |-> -1, parts |-> {}]

NewCall(kind, pc) == [NoCall EXCEPT !.kind = kind, !.pc = pc, !.file = currentFile]

\* a call is in, or has been through, uploadChunksConcurrently
InPass(cl) ==
  /\ cl.kind \in {"start", "resume"}
  /\ cl.pc \notin {"check", "afterCheck", "init", "create", "instant"}

\* every pass that holds chunk objects loses them when chunks.value is replaced
Detach(cs) ==
  [c \in CallIds |-> IF InPass(cs[c]) THEN [cs[c] EXCEPT !.stale = TRUE] ELSE cs[c]]

Quiet == micro = <<>>

\* uploadProgress and hashProgress: { loaded, total, percentage }
NoProgress == [loaded |-> 0, total |-> 0, percentage |-> 0]

\* resumeInfo: null, or the uploadedCount of the session
NoResumeInfo == -1

\* networkStats as far as the hook's operations decide it: startTime is 0 or
\* the time of the first measurement (1), totalBytes the size of the upload
\* The specifications of the speed tracker keep the whole state: times in
\* seconds, speedInfo's current, average and peak beside the fields of
\* networkStats, the average as <<bytes, seconds>>.
NoStats == [startTime |-> 0, totalBytes |-> 0, lastMeasureTime |-> 0,
            lastMeasureBytes |-> 0, speedHistory |-> <<>>,
            current |-> 0, average |-> <<0, 1>>, peak |-> 0]

\* uploadedSize over the chunk list chs
uploadedSize(chs) ==
  LET F[k \in 0 .. Len(chs)] ==
        IF k = 0 THEN 0
        ELSE F[k - 1] + (IF chs[k].uploaded THEN chs[k].end - chs[k].start ELSE 0)
  IN F[Len(chs)]

\* updateTotalProgress() with chunks.value = chs
updateTotalProgress(chs) ==
  IF currentFile = 0 THEN uploadProgress
  ELSE [loaded |-> uploadedSize(chs),
        total |-> currentFile,
        percentage |-> RoundPct(uploadedSize(chs), currentFile)]

\* updateNetworkStats(uploadedBytes): the first call sets startTime
updateNetworkStats == [networkStats EXCEPT !.startTime = 1]

\* a tracker that measures on every call
updateNetworkStatsUnthrottled(uploadedBytes, now) ==
  IF networkStats.startTime = 0
    THEN [networkStats EXCEPT !.startTime = now, !.lastMeasureTime = now,
                              !.lastMeasureBytes = uploadedBytes]
    ELSE LET currentSpeed == uploadedBytes - networkStats.lastMeasureBytes
             pushed == Append(networkStats.speedHistory, currentSpeed)
         IN [networkStats EXCEPT
               !.current = currentSpeed,
               !.speedHistory = IF Len(pushed) > speedHistoryMax THEN Tail(pushed) ELSE pushed,
               !.peak = IF currentSpeed > @ THEN currentSpeed ELSE @,
               !.lastMeasureTime = now,
               !.lastMeasureBytes = uploadedBytes]

\* updateNetworkStats(uploadedBytes) when Date.now() is `now`.  The clock of
\* the model moves by whole seconds and a call comes at most one second after
\* the last measurement, so timeDiff divides bytesDiff.
updateNetworkStatsAt(uploadedBytes, now) ==
  IF networkStats.startTime = 0
    THEN [networkStats EXCEPT !.startTime = now, !.lastMeasureTime = now,
                              !.lastMeasureBytes = uploadedBytes]
    ELSE LET timeDiff == now - networkStats.lastMeasureTime
             bytesDiff == uploadedBytes - networkStats.lastMeasureBytes
         IN IF timeDiff >= 1
              THEN LET currentSpeed == bytesDiff \div timeDiff
                       pushed == Append(networkStats.speedHistory, currentSpeed)
                       totalTime == now - networkStats.startTime
                   IN [networkStats EXCEPT
                         !.current = currentSpeed,
                         !.speedHistory = IF Len(pushed) > speedHistoryMax
                                            THEN Tail(pushed) ELSE pushed,
                         !.average = IF totalTime > 0 THEN <<uploadedBytes, totalTime>>
                                                      ELSE <<0, 1>>,
                         !.peak = IF currentSpeed > @ THEN currentSpeed ELSE @,
                         !.lastMeasureTime = now,
                         !.lastMeasureBytes = uploadedBytes]
              ELSE networkStats

\* Date.now() at a call of the tracker: the second of the last measurement or
\* the next one; after a reset the clock is read as 1
Clock == {IF networkStats.lastMeasureTime = 0 THEN 1 ELSE networkStats.lastMeasureTime,
          networkStats.lastMeasureTime + 1}

\* no planner is called on its own
NoPlan == [fileSize |-> 0, chunkSize |-> 0, fileHash |-> <<>>, uploadedParts |-> 0,
           uploadedChunkHashes |-> <<>>, fn |-> "none", out |-> <<>>, again |-> <<>>]

Init ==
  /\ concurrent \in 1 .. MaxConcurrent
  /\ planner = NoPlan
  /\ currentFile = 0
  /\ fileHash = FALSE
  /\ chunks = <<>>
  /\ uploadSession = FALSE
  /\ isUploading = FALSE
  /\ isPaused = FALSE
  /\ isCompleted = FALSE
  /\ isCalculatingHash = FALSE
  /\ isCheckingUpload = FALSE
  /\ isInitializing = FALSE
  /\ isSecondTransfer = FALSE
  /\ executingChunks = {}
  /\ callers = [c \in CallIds |-> NoCall]
  /\ ncalls = 0
  /\ markJobs = [c \in CallIds |-> NoSession]
  /\ tasks = {}
  /\ micro = <<>>
  /\ srvSession = FALSE
  /\ srvParts = {}
  /\ srvComplete = FALSE
  /\ sent = [i \in ChunkIdx |-> 0]
  /\ okCount = [i \in ChunkIdx |-> 0]
  /\ failCount = [i \in ChunkIdx |-> 0]
  /\ nComplete = 0
  /\ uploadProgress = NoProgress
  /\ hashProgress = NoProgress
  /\ resumeInfo = NoResumeInfo
  /\ networkStats = NoStats

\* ---- promise continuations ------------------------------------------------
Item(op, c, i, res) == [op |-> op, c |-> c, i |-> i, res |-> res]
LoopItem(c) == Item("loop", c, 0, "")
RetItem(c) == Item("ret", c, 0, "")
AfterCheckItem(c) == Item("afterCheck", c, 0, "")
SettledItem(c, i, res) == Item("settled", c, i, res)

Head1(op) == micro # <<>> /\ Head(micro).op = op

\* ---- file selection (component: reset(), then currentFile.value = file) ----
\* The backend's prior state for the file's fingerprint is the environment's.
SelectFile ==
  /\ Quiet
  /\ currentFile = 0 /\ ncalls = 0
  /\ \E size \in 1 .. MaxFileSize :
       /\ currentFile' = size
       /\ \E prior \in {"none", "session", "complete"},
             S \in SUBSET (0 .. (CeilDiv(size, chunkSize) - 1)) :
            /\ prior = "none" => S = {}
            /\ prior = "complete" => S = 0 .. (CeilDiv(size, chunkSize) - 1)
            /\ srvSession' = (prior = "session")
            /\ srvComplete' = (prior = "complete")
            /\ srvParts' = S
  /\ UNCHANGED <<optVars, fileHash, chunks, uploadSession, flagVars,
                 executingChunks, callers, ncalls, markJobs, tasks, micro, logVars,
                 statVars>>

\* ---- fingerprint ------------------------------------------------------------
\* The call's pos counts the windows of calculateFileHash still to be read.
StartCalculateHash ==
  /\ Quiet
  /\ currentFile # 0
  /\ ncalls < MaxCalls
  /\ ncalls' = ncalls + 1
  /\ callers' = [callers EXCEPT ![ncalls + 1] =
                   [NewCall("hash", "hashing") EXCEPT
                      !.pos = CeilDiv(currentFile, hashChunkSize)]]
  /\ isCalculatingHash' = TRUE
  /\ hashProgress' = [loaded |-> 0, total |-> currentFile, percentage |-> 0]
  /\ UNCHANGED <<optVars, currentFile, fileHash, chunks, uploadSession, isUploading,
                 isPaused, isCompleted, isCheckingUpload, isInitializing,
                 isSecondTransfer, executingChunks, markJobs, tasks, micro,
                 srvVars, logVars, uploadProgress, resumeInfo, networkStats>>

\* hashProgress after the window that leaves `left` windows of file to be read
HashLoaded(file, left) ==
  LET processedBytes == Min(file, (CeilDiv(file, hashChunkSize) - left) * hashChunkSize)
  IN [hashProgress EXCEPT !.loaded = processedBytes,
                          !.percentage = RoundPct(processedBytes, file)]

\* a window that is not the last has been read; the next one is read
HashWindow ==
  /\ Quiet
  /\ \E c \in CallIds :
       /\ callers[c].kind = "hash" /\ callers[c].pc = "hashing"
       /\ callers[c].pos > 1
       /\ callers' = [callers EXCEPT ![c].pos = @ - 1]
       /\ hashProgress' = HashLoaded(callers[c].file, callers[c].pos - 1)
  /\ UNCHANGED <<optVars, currentFile, fileHash, chunks, uploadSession, flagVars,
                 executingChunks, ncalls, markJobs, tasks, micro, srvVars, logVars,
                 uploadProgress, resumeInfo, networkStats>>

\* the last window has been read: fileHash is set and checkUploadStatus is
\* called, which throws when there is no file
HashDone ==
  /\ Quiet
  /\ \E c \in CallIds :
       /\ callers[c].kind = "hash" /\ callers[c].pc = "hashing"
       /\ callers[c].pos = 1
       /\ hashProgress' = HashLoaded(callers[c].file, 0)
       /\ isCalculatingHash' = FALSE
       /\ fileHash' = TRUE
       /\ IF currentFile = 0
            THEN /\ callers' = [callers EXCEPT ![c] = Failed(@, "nofile", 0)]
                 /\ UNCHANGED isCheckingUpload
            ELSE /\ callers' = [callers EXCEPT ![c].pc = "check"]
                 /\ isCheckingUpload' = TRUE
  /\ UNCHANGED <<optVars, currentFile, chunks, uploadSession, isUploading, isPaused,
                 isCompleted, isInitializing, isSecondTransfer, executingChunks,
                 ncalls, markJobs, tasks, micro, srvVars, logVars,
                 uploadProgress, resumeInfo, networkStats>>

\* ---- startUpload ------------------------------------------------------------
StartUpload ==
  /\ Quiet
  /\ currentFile # 0 /\ fileHash
  /\ ncalls < MaxCalls
  /\ ncalls' = ncalls + 1
  /\ callers' = [callers EXCEPT ![ncalls + 1] = NewCall("start", "check")]
  /\ isUploading' = TRUE
  /\ isCompleted' = FALSE
  /\ isPaused' = FALSE
  /\ isSecondTransfer' = FALSE
  /\ isCheckingUpload' = TRUE
  /\ networkStats' = [NoStats EXCEPT !.totalBytes = currentFile]
  /\ UNCHANGED <<optVars, currentFile, fileHash, chunks, uploadSession,
                 isCalculatingHash, isInitializing, executingChunks, markJobs,
                 tasks, micro, srvVars, logVars, uploadProgress, hashProgress,
                 resumeInfo>>

\* ---- checkUploadStatus: the response of the check request -------------------
\* a startUpload without the early return of its instant branch
InstantFallsThrough(c) ==
  /\ isSecondTransfer' = TRUE
  /\ isCompleted' = TRUE
  /\ callers' = [callers EXCEPT ![c].pc =
                   IF callers[c].kind = "start" THEN "afterCheck" ELSE "done"]
  /\ micro' = IF callers[c].kind = "start" THEN <<AfterCheckItem(c)>> ELSE micro
  /\ UNCHANGED <<isUploading, uploadSession, resumeInfo, markJobs>>

\* fileExists && isComplete: checkUploadStatus sets the instant transfer and
\* returns; a startUpload then sets its flags and returns the url
InstantTransfer(c) ==
  /\ isSecondTransfer' = TRUE
  /\ isCompleted' = TRUE
  /\ isUploading' = IF callers[c].kind = "start" THEN FALSE ELSE isUploading
  /\ callers' = [callers EXCEPT ![c].pc =
                   IF callers[c].kind = "start" THEN "instant" ELSE "done"]
  /\ UNCHANGED <<uploadSession, resumeInfo, markJobs, micro>>

CheckResponse ==
  /\ Quiet
  /\ \E c \in CallIds, ok \in BOOLEAN :
       LET isStart == callers[c].kind = "start" IN
       /\ callers[c].pc = "check"
       /\ isCheckingUpload' = FALSE
       /\ IF ~ok
            THEN /\ callers' = [callers EXCEPT ![c] = Failed(@, "check", 0)]
                 /\ isUploading' = IF isStart THEN FALSE ELSE isUploading
                 /\ UNCHANGED <<isSecondTransfer, isCompleted, uploadSession,
                                resumeInfo, markJobs, micro>>
          ELSE IF srvComplete
            THEN InstantTransfer(c)
          ELSE /\ IF srvSession
                    THEN /\ uploadSession' = TRUE
                         /\ resumeInfo' = Cardinality(srvParts)
                         \* createChunksAndMarkUploaded(null, ...) rejects
                         /\ markJobs' = IF currentFile = 0 THEN markJobs
                                        ELSE [markJobs EXCEPT ![c] =
                                                [uploadedParts |-> Cardinality(srvParts),
                                                 parts |-> srvParts]]
                    ELSE UNCHANGED <<uploadSession, resumeInfo, markJobs>>
               /\ IF isStart
                    THEN /\ callers' = [callers EXCEPT ![c].pc = "afterCheck"]
                         /\ micro' = <<AfterCheckItem(c)>>
                    ELSE /\ callers' = [callers EXCEPT ![c].pc = "done"]
                         /\ micro' = micro
               /\ UNCHANGED <<isSecondTransfer, isCompleted, isUploading>>
  /\ UNCHANGED <<optVars, currentFile, fileHash, chunks, isPaused, isCalculatingHash,
                 isInitializing, executingChunks, ncalls, tasks, srvVars, logVars,
                 uploadProgress, hashProgress, networkStats>>

\* the unawaited createChunksAndMarkUploaded of a check has hashed its chunks
MarkChunksDone ==
  /\ Quiet
  /\ \E c \in CallIds :
       /\ markJobs[c] # NoSession
       /\ chunks' = createChunksAndMarkUploaded(callers[c].file, markJobs[c])
       /\ uploadProgress' = updateTotalProgress(chunks')
       /\ markJobs' = [markJobs EXCEPT ![c] = NoSession]
       /\ callers' = Detach(callers)
  /\ UNCHANGED <<optVars, currentFile, fileHash, uploadSession, flagVars,
                 executingChunks, ncalls, tasks, micro, srvVars, logVars,
                 hashProgress, resumeInfo, networkStats>>

\* completeUpload, called by call c; cs are the calls as updated so far
CompleteUpload(c, cs) ==
  IF ~uploadSession \/ isPaused
    THEN /\ callers' = [cs EXCEPT ![c] =
                          Failed(@, IF ~uploadSession THEN "nosession" ELSE "paused", 0)]
         /\ isUploading' = FALSE
         /\ nComplete' = nComplete
    ELSE /\ callers' = [cs EXCEPT ![c].pc = "complete"]
         /\ isUploading' = isUploading
         /\ nComplete' = nComplete + 1

\* a pendingChunks taken from chunks.value instead of remainingChunks
PendingWithUploaded(chs, exec) ==
  LET keep == {k \in 1 .. Len(chs) : chs[k].index \notin exec}
      F[k \in 1 .. (Len(chs) + 1)] ==
        IF k > Len(chs) THEN <<>>
        ELSE (IF k \in keep THEN <<chs[k].index>> ELSE <<>>) \o F[k + 1]
  IN F[1]

\* a pendingChunks in reverse list order
PendingReversed(chs, exec) ==
  LET keep == {k \in 1 .. Len(chs) : ~chs[k].uploaded /\ chs[k].index \notin exec}
      F[k \in 0 .. Len(chs)] ==
        IF k = 0 THEN <<>>
        ELSE (IF k \in keep THEN <<chs[k].index>> ELSE <<>>) \o F[k - 1]
  IN F[Len(chs)]

\* pendingChunks of uploadChunksConcurrently: the chunks of chs that are not
\* uploaded and whose index is not in exec, in list order
PendingOf(chs, exec) ==
  LET keep == {k \in 1 .. Len(chs) : ~chs[k].uploaded /\ chs[k].index \notin exec}
      F[k \in 1 .. (Len(chs) + 1)] ==
        IF k > Len(chs) THEN <<>>
        ELSE (IF k \in keep THEN <<chs[k].index>> ELSE <<>>) \o F[k + 1]
  IN F[1]

\* uploadChunksConcurrently is entered by call c: pendingChunks is taken
BeginPass(c, cs, chs) ==
  /\ callers' = [cs EXCEPT ![c].pc = "loop",
                           ![c].pending = PendingOf(chs, executingChunks),
                           ![c].pos = 1,
                           ![c].executing = {},
                           ![c].stale = FALSE]
  /\ micro' = Tail(micro) \o <<LoopItem(c)>>

\* startUpload after the check: lines 765-782
TransferOrComplete(c, cs, chs) ==
  IF Cardinality({k \in 1 .. Len(chs) : chs[k].uploaded}) = Len(chs)
    THEN CompleteUpload(c, cs) /\ micro' = Tail(micro)
    ELSE BeginPass(c, cs, chs) /\ UNCHANGED <<isUploading, nComplete>>

AfterCheck ==
  /\ Head1("afterCheck")
  /\ LET c == Head(micro).c IN
       IF ~uploadSession
         THEN \* initializeUpload throws when there is no file or no fingerprint
              IF currentFile = 0 \/ ~fileHash
                THEN /\ callers' = [callers EXCEPT ![c] = Failed(@, "nofile", 0)]
                     /\ isUploading' = FALSE
                     /\ micro' = Tail(micro)
                     /\ UNCHANGED <<isInitializing, nComplete, uploadProgress>>
                ELSE /\ isInitializing' = TRUE
                     /\ callers' = [callers EXCEPT ![c].pc = "init"]
                     /\ micro' = Tail(micro)
                     /\ UNCHANGED <<isUploading, nComplete, uploadProgress>>
         ELSE /\ uploadProgress' = updateTotalProgress(chunks)
              /\ TransferOrComplete(c, callers, chunks)
              /\ UNCHANGED isInitializing
  /\ UNCHANGED <<optVars, currentFile, fileHash, chunks, uploadSession, isPaused,
                 isCompleted, isCalculatingHash, isCheckingUpload, isSecondTransfer,
                 executingChunks, ncalls, markJobs, tasks, srvVars, sent, okCount,
                 failCount, hashProgress, resumeInfo, networkStats>>

\* a startUpload that takes the answer of a failed initialize for a session
InitFailedTakenForSession(c) ==
  /\ callers' = [callers EXCEPT ![c].pc = "create"]
  /\ uploadSession' = TRUE
  /\ UNCHANGED <<isUploading, srvSession>>

\* initializeUpload throws (network error, non-2xx status or success: false);
\* startUpload's catch clears isUploading and rethrows
InitFailed(c) ==
  /\ isUploading' = FALSE
  /\ callers' = [callers EXCEPT ![c] = Failed(@, "init", 0)]
  /\ UNCHANGED <<uploadSession, srvSession>>

InitResponse ==
  /\ Quiet
  /\ \E c \in CallIds, ok \in BOOLEAN :
       /\ callers[c].pc = "init"
       /\ isInitializing' = FALSE
       /\ IF ok
            THEN /\ uploadSession' = TRUE
                 /\ srvSession' = TRUE
                 \* createChunks(null) throws
                 /\ IF currentFile = 0
                      THEN /\ callers' = [callers EXCEPT ![c] = Failed(@, "nofile", 0)]
                           /\ isUploading' = FALSE
                      ELSE /\ callers' = [callers EXCEPT ![c].pc = "create"]
                           /\ UNCHANGED isUploading
            ELSE InitFailed(c)
  /\ UNCHANGED <<optVars, currentFile, fileHash, chunks, isPaused, isCompleted,
                 isCalculatingHash, isCheckingUpload, isSecondTransfer,
                 executingChunks, ncalls, markJobs, tasks, micro, srvParts,
                 srvComplete, logVars,
                 statVars>>

\* createChunks of the fresh path has hashed its chunks: chunks.value is assigned
CreateChunksDone ==
  /\ Quiet
  /\ \E c \in CallIds :
       /\ callers[c].pc = "create"
       /\ chunks' = createChunks(callers[c].file)
       /\ uploadProgress' = updateTotalProgress(chunks')
       /\ micro' = <<LoopItem(c)>>
       /\ callers' = [Detach(callers) EXCEPT
                        ![c].pc = "loop",
                        ![c].pending = PendingOf(chunks', executingChunks),
                        ![c].pos = 1,
                        ![c].executing = {},
                        ![c].stale = FALSE]
  /\ UNCHANGED <<optVars, currentFile, fileHash, uploadSession, flagVars,
                 executingChunks, ncalls, markJobs, tasks, srvVars, logVars,
                 hashProgress, resumeInfo, networkStats>>

\* ---- uploadChunksConcurrently: one turn of the admission loop ----------------
\* an admission loop that does not look at isPaused
LoopLeftAtEnd(cl) == cl.pos > Len(cl.pending)

\* the for loop is over, or left by `if (isPaused.value) break`
LoopLeft(cl) == cl.pos > Len(cl.pending) \/ isPaused

\* Chunk index i is at position i + 1 of chunks.
Loop ==
  /\ Head1("loop")
  /\ LET c == Head(micro).c
         cl == callers[c]
     IN
       IF LoopLeft(cl)
         THEN \* the loop is left: Promise.allSettled(executing)
              /\ IF cl.executing = {}
                   THEN /\ callers' = [callers EXCEPT ![c].pc = "ret"]
                        /\ micro' = Tail(micro) \o <<RetItem(c)>>
                   ELSE /\ callers' = [callers EXCEPT ![c].pc = "settle"]
                        /\ micro' = Tail(micro)
              /\ UNCHANGED <<executingChunks, tasks, chunks, sent>>
         ELSE \* uploadSingleChunk(chunk) up to the request of uploadChunk
              LET i == cl.pending[cl.pos]
                  ex == cl.executing \cup {i}
                  racing == Cardinality(ex) >= concurrent
                  next == IF racing THEN <<>> ELSE <<LoopItem(c)>>
              IN
                /\ executingChunks' = executingChunks \cup {i}
                /\ callers' = [callers EXCEPT ![c].executing = ex,
                                              ![c].pos = cl.pos + 1,
                                              ![c].pc = IF racing THEN "race" ELSE "loop"]
                /\ IF ~uploadSession
                     THEN \* uploadChunk throws before any request is made
                          /\ micro' = (Tail(micro) \o <<SettledItem(c, i, "fail")>>) \o next
                          /\ UNCHANGED <<tasks, chunks, sent>>
                     ELSE /\ micro' = Tail(micro) \o next
                          /\ tasks' = tasks \cup {<<c, i>>}
                          /\ sent' = [sent EXCEPT ![i] = @ + 1]
                          /\ chunks' = IF cl.stale THEN chunks
                                       ELSE [chunks EXCEPT ![i + 1].ac = c,
                                                           ![i + 1].acAborted = FALSE,
                                                           ![i + 1].progress = 1]
  /\ UNCHANGED <<optVars, currentFile, fileHash, uploadSession, flagVars, ncalls,
                 markJobs, srvVars, okCount, failCount, nComplete,
                 statVars>>

\* ---- uploadSingleChunk after its request has settled -------------------------
\* uploadChunk returns its promise without awaiting it, so a rejection is not
\* caught by uploadChunk's catch (retryCount++, progress = 0, return false): it
\* is thrown by `await uploadChunk(chunk)` and leaves the retry loop.
Settled ==
  /\ Head1("settled")
  /\ LET c == Head(micro).c
         i == Head(micro).i
         res == Head(micro).res
         cl == callers[c]
         ex == cl.executing \ {i}
         \* the promise pushed on `executing` is rejected
         rejected == res # "ok" /\ ~isPaused
     IN
       /\ executingChunks' = executingChunks \ {i}
       /\ IF cl.pc = "race"
            THEN IF rejected
                   THEN \* Promise.race throws: the pass and its caller fail
                        /\ callers' = [callers EXCEPT ![c] =
                                          Failed([@ EXCEPT !.executing = ex], "chunk", i)]
                        /\ isUploading' = FALSE
                        /\ micro' = Tail(micro)
                   ELSE /\ callers' = [callers EXCEPT ![c].executing = ex, ![c].pc = "loop"]
                        /\ micro' = Tail(micro) \o <<LoopItem(c)>>
                        /\ UNCHANGED isUploading
          ELSE IF cl.pc = "settle" /\ ex = {}
            THEN /\ callers' = [callers EXCEPT ![c].executing = ex, ![c].pc = "ret"]
                 /\ micro' = Tail(micro) \o <<RetItem(c)>>
                 /\ UNCHANGED isUploading
          ELSE /\ callers' = [callers EXCEPT ![c].executing = ex]
               /\ micro' = Tail(micro)
               /\ UNCHANGED isUploading
  /\ UNCHANGED <<optVars, currentFile, fileHash, chunks, uploadSession, isPaused,
                 isCompleted, isCalculatingHash, isCheckingUpload, isInitializing,
                 isSecondTransfer, ncalls, markJobs, tasks, srvVars, logVars,
                 statVars>>

\* ---- the caller after uploadChunksConcurrently has returned ------------------
Ret ==
  /\ Head1("ret")
  /\ LET c == Head(micro).c IN
       IF callers[c].kind = "resume" /\ Cardinality(uploadedChunks) # totalChunks
         THEN /\ callers' = [callers EXCEPT ![c].pc = "null"]
              /\ isUploading' = FALSE
              /\ UNCHANGED nComplete
         ELSE CompleteUpload(c, callers)
  /\ micro' = Tail(micro)
  /\ UNCHANGED <<optVars, currentFile, fileHash, chunks, uploadSession, isPaused,
                 isCompleted, isCalculatingHash, isCheckingUpload, isInitializing,
                 isSecondTransfer, executingChunks, ncalls, markJobs, tasks, srvVars,
                 sent, okCount, failCount,
                 statVars>>

CompleteResponse ==
  /\ Quiet
  /\ \E c \in CallIds, ok \in BOOLEAN :
       /\ callers[c].pc = "complete"
       /\ isUploading' = FALSE
       /\ IF ok
            THEN /\ isCompleted' = TRUE
                 /\ srvComplete' = TRUE
                 /\ callers' = [callers EXCEPT ![c].pc = "done"]
            ELSE /\ callers' = [callers EXCEPT ![c] = Failed(@, "complete", 0)]
                 /\ UNCHANGED <<isCompleted, srvComplete>>
  /\ UNCHANGED <<optVars, currentFile, fileHash, chunks, uploadSession, isPaused,
                 isCalculatingHash, isCheckingUpload, isInitializing, isSecondTransfer,
                 executingChunks, ncalls, markJobs, tasks, micro, srvSession,
                 srvParts, logVars,
                 statVars>>

\* ---- uploadChunk: the events of a request in flight --------------------------
\* A call whose chunk objects are no longer those of chunks.value updates
\* objects nobody reads.
ChunkProgress ==
  /\ Quiet
  /\ \E t \in tasks :
       LET c == t[1]
           k == t[2] + 1
       IN
         IF callers[c].stale
           THEN chunks' = chunks
           ELSE /\ ~chunks[k].acAborted
                /\ \E loaded \in 0 .. (chunks[k].end - chunks[k].start) :
                     chunks' = [chunks EXCEPT ![k].progress =
                                  RoundPct(loaded, chunks[k].end - chunks[k].start)]
  /\ networkStats' = updateNetworkStats
  /\ uploadProgress' = updateTotalProgress(chunks')
  /\ UNCHANGED <<optVars, currentFile, fileHash, uploadSession, flagVars,
                 executingChunks, callers, ncalls, markJobs, tasks, micro, srvVars,
                 logVars, hashProgress, resumeInfo>>

\* load with a 2xx status and success: true
ChunkSuccess ==
  /\ Quiet
  /\ \E t \in tasks :
       LET c == t[1]
           i == t[2]
       IN
         /\ tasks' = tasks \ {t}
         /\ chunks' = IF callers[c].stale THEN chunks
                      ELSE [chunks EXCEPT ![i + 1].uploaded = TRUE,
                                          ![i + 1].progress = 100]
         /\ okCount' = [okCount EXCEPT ![i] = @ + 1]
         /\ srvParts' = srvParts \cup {i}
         /\ micro' = <<SettledItem(c, i, "ok")>>
  /\ uploadProgress' = updateTotalProgress(chunks')
  /\ UNCHANGED <<optVars, currentFile, fileHash, uploadSession, flagVars,
                 executingChunks, callers, ncalls, markJobs, srvSession,
                 srvComplete, sent, failCount, nComplete, hashProgress,
                 resumeInfo, networkStats>>

\* network error, non-2xx status, success: false, unparsable response or timeout
ChunkFail ==
  /\ Quiet
  /\ \E t \in tasks :
       /\ tasks' = tasks \ {t}
       /\ failCount' = [failCount EXCEPT ![t[2]] = @ + 1]
       /\ micro' = <<SettledItem(t[1], t[2], "fail")>>
  /\ UNCHANGED <<optVars, currentFile, fileHash, chunks, uploadSession, flagVars,
                 executingChunks, callers, ncalls, markJobs, srvVars, sent, okCount,
                 nComplete,
                 statVars>>

\* `for (const chunk of chunks.value)`: the chunks at the positions ks become
\* upd[k], the others are left alone
ForChunks(ks, upd) ==
  IF ks = {} THEN chunks
  ELSE [k \in 1 .. Len(chunks) |-> IF k \in ks THEN upd[k] ELSE chunks[k]]

\* ---- abort -------------------------------------------------------------------
\* an abort that rejects no request
AbortRejectsNothing(ks) == <<>>

\* abortController.abort() of the chunks at the positions ks: the requests that
\* listen to these controllers are rejected with '上传已取消', in list order.
AbortItems(ks) ==
  LET F[k \in 1 .. (Len(chunks) + 1)] ==
        IF k > Len(chunks) THEN <<>>
        ELSE (IF k \in ks /\ <<chunks[k].ac, chunks[k].index>> \in tasks
                THEN <<SettledItem(chunks[k].ac, chunks[k].index, "cancel")>>
                ELSE <<>>) \o F[k + 1]
  IN F[1]

AbortedTasks(ks) ==
  {t \in tasks : \E k \in ks : t = <<chunks[k].ac, chunks[k].index>>}

pauseUpload ==
  /\ Quiet
  /\ LET ks == {k \in 1 .. Len(chunks) :
                  chunks[k].ac # 0 /\ ~chunks[k].uploaded /\ chunks[k].progress > 0}
     IN
       /\ isPaused' = TRUE
       /\ chunks' = ForChunks(ks, [k \in ks |->
                                     [chunks[k] EXCEPT !.acAborted = TRUE,
                                                       !.progress = 0]])
       /\ tasks' = tasks \ AbortedTasks(ks)
       /\ micro' = AbortItems(ks)
  /\ UNCHANGED <<optVars, currentFile, fileHash, uploadSession, isUploading,
                 isCompleted, isCalculatingHash, isCheckingUpload, isInitializing,
                 isSecondTransfer, executingChunks, callers, ncalls, markJobs,
                 srvVars, logVars,
                 statVars>>

resumeUpload ==
  /\ Quiet
  /\ currentFile # 0 /\ ~isCompleted
  /\ ncalls < MaxCalls
  /\ ncalls' = ncalls + 1
  /\ isPaused' = FALSE
  /\ isUploading' = TRUE
  /\ executingChunks' = {}
  /\ LET ks == {k \in 1 .. Len(chunks) :
                  ~chunks[k].uploaded /\ chunks[k].progress > 0
                  /\ chunks[k].progress < 100}
     IN chunks' = ForChunks(ks, [k \in ks |->
                                   [chunks[k] EXCEPT !.progress = 0, !.ac = 0,
                                                     !.acAborted = FALSE]])
  /\ callers' = [callers EXCEPT ![ncalls + 1] =
                   [NewCall("resume", "loop") EXCEPT !.pending = PendingOf(chunks', {})]]
  /\ micro' = <<LoopItem(ncalls + 1)>>
  /\ UNCHANGED <<optVars, currentFile, fileHash, uploadSession, isCompleted,
                 isCalculatingHash, isCheckingUpload, isInitializing,
                 isSecondTransfer, markJobs, tasks, srvVars, logVars,
                 statVars>>

cancelUpload ==
  /\ Quiet
  /\ ncalls < MaxCalls
  /\ LET ks == {k \in 1 .. Len(chunks) : chunks[k].ac # 0 /\ ~chunks[k].uploaded}
     IN
       /\ isPaused' = TRUE
       /\ isUploading' = FALSE
       /\ isCalculatingHash' = FALSE
       /\ isCheckingUpload' = FALSE
       /\ chunks' = ForChunks(ks, [k \in ks |->
                                     [chunks[k] EXCEPT !.acAborted = TRUE]])
       /\ tasks' = tasks \ AbortedTasks(ks)
       /\ micro' = AbortItems(ks)
       /\ executingChunks' = {}
       /\ ncalls' = ncalls + 1
       /\ callers' = [callers EXCEPT ![ncalls + 1] =
                        NewCall("cancel", IF uploadSession THEN "cancel" ELSE "done")]
       \* without a session resetNetworkStats() is reached at once
       /\ networkStats' = IF uploadSession THEN networkStats ELSE NoStats
  /\ UNCHANGED <<optVars, currentFile, fileHash, uploadSession, isCompleted,
                 isInitializing, isSecondTransfer, markJobs, srvVars, logVars,
                 uploadProgress, hashProgress, resumeInfo>>

\* the cancel request has been answered, or has failed (the failure is logged)
CancelResponse ==
  /\ Quiet
  /\ \E c \in CallIds, ok \in BOOLEAN :
       /\ callers[c].pc = "cancel"
       /\ callers' = [callers EXCEPT ![c].pc = "done"]
       /\ IF ok
            THEN srvSession' = FALSE /\ srvParts' = {}
            ELSE UNCHANGED <<srvSession, srvParts>>
       /\ networkStats' = NoStats
  /\ UNCHANGED <<optVars, currentFile, fileHash, chunks, uploadSession, flagVars,
                 executingChunks, ncalls, markJobs, tasks, micro, srvComplete,
                 logVars, uploadProgress, hashProgress, resumeInfo>>

\* ---- reset ------------------------------------------------------------------
\* chunks.value is replaced by an empty list, so every pass loses its chunk
\* objects; no request is aborted and no pending call is told.
\* the reset of the earlier version, which leaves executingChunks alone
resetWithoutClear ==
  /\ Quiet
  /\ isUploading' = FALSE
  /\ isPaused' = FALSE
  /\ isCompleted' = FALSE
  /\ isCalculatingHash' = FALSE
  /\ isCheckingUpload' = FALSE
  /\ isInitializing' = FALSE
  /\ isSecondTransfer' = FALSE
  /\ currentFile' = 0
  /\ fileHash' = FALSE
  /\ chunks' = <<>>
  /\ uploadSession' = FALSE
  /\ resumeInfo' = NoResumeInfo
  /\ uploadProgress' = NoProgress
  /\ hashProgress' = NoProgress
  /\ networkStats' = NoStats
  /\ callers' = Detach(callers)
  /\ UNCHANGED <<optVars, executingChunks, ncalls, markJobs, tasks, micro, srvVars,
                 logVars>>

reset ==
  /\ Quiet
  /\ isUploading' = FALSE
  /\ isPaused' = FALSE
  /\ isCompleted' = FALSE
  /\ isCalculatingHash' = FALSE
  /\ isCheckingUpload' = FALSE
  /\ isInitializing' = FALSE
  /\ isSecondTransfer' = FALSE
  /\ currentFile' = 0
  /\ fileHash' = FALSE
  /\ chunks' = <<>>
  /\ uploadSession' = FALSE
  /\ resumeInfo' = NoResumeInfo
  /\ executingChunks' = {}
  /\ uploadProgress' = NoProgress
  /\ hashProgress' = NoProgress
  /\ networkStats' = NoStats
  /\ callers' = Detach(callers)
  /\ UNCHANGED <<optVars, ncalls, markJobs, tasks, micro, srvVars, logVars>>

Next ==
  \/ SelectFile
  \/ StartCalculateHash
  \/ HashWindow
  \/ HashDone
  \/ StartUpload
  \/ CheckResponse
  \/ MarkChunksDone
  \/ AfterCheck
  \/ InitResponse
  \/ CreateChunksDone
  \/ Loop
  \/ Settled
  \/ Ret
  \/ CompleteResponse
  \/ ChunkProgress
  \/ ChunkSuccess
  \/ ChunkFail
  \/ pauseUpload
  \/ resumeUpload
  \/ cancelUpload
  \/ CancelResponse
  \/ reset

Spec == Init /\ [][Next]_vars

\* ---- the calls the component's buttons allow --------------------------------
\* The hash button is shown while there is a file and no fingerprint; the start,
\* pause and resume buttons while there is a fingerprint and no instant
\* transfer.  The cancel button also resets the task and is left out here.
Busy == isCalculatingHash \/ isCheckingUpload \/ isInitializing

handleCalculateHash ==
  /\ ~fileHash /\ ~Busy /\ ~isUploading
  /\ StartCalculateHash

handleStartUpload ==
  /\ ~isSecondTransfer /\ ~isUploading /\ ~Busy
  /\ StartUpload

handlePauseUpload ==
  /\ fileHash /\ ~isSecondTransfer /\ isUploading /\ ~isPaused
  /\ pauseUpload

handleResumeUpload ==
  /\ fileHash /\ ~isSecondTransfer /\ isPaused
  /\ resumeUpload

NextUI ==
  \/ SelectFile
  \/ handleCalculateHash
  \/ HashWindow
  \/ HashDone
  \/ handleStartUpload
  \/ CheckResponse
  \/ MarkChunksDone
  \/ AfterCheck
  \/ InitResponse
  \/ CreateChunksDone
  \/ Loop
  \/ Settled
  \/ Ret
  \/ CompleteResponse
  \/ ChunkProgress
  \/ ChunkSuccess
  \/ ChunkFail
  \/ handlePauseUpload
  \/ handleResumeUpload

SpecUI == Init /\ [][NextUI]_vars

\* ---- the component's calls when every chunk request settles ------------------
\* a chunk request in flight succeeds or fails
ChunkSettles == ChunkSuccess \/ ChunkFail

\* every continuation runs and every chunk request settles; the user's calls,
\* the other responses and the progress events are not forced
SpecSettle ==
  /\ Init
  /\ [][NextUI]_vars
  /\ WF_vars(AfterCheck) /\ WF_vars(Loop) /\ WF_vars(Settled) /\ WF_vars(Ret)
  /\ WF_vars(ChunkSettles)

\* The throw is the first statement of the operation, before its try block:
\* the call is rejected and nothing else happens.
Rejected(kind) ==
  /\ Quiet
  /\ ncalls < MaxCalls
  /\ ncalls' = ncalls + 1
  /\ callers' = [callers EXCEPT ![ncalls + 1] = Failed(NewCall(kind, "failed"), "rejected", 0)]
  /\ UNCHANGED <<optVars, currentFile, fileHash, chunks, uploadSession, flagVars,
                 executingChunks, markJobs, tasks, micro, srvVars, logVars, statVars>>

\* a resumeUpload whose guard comes after its first assignments
resumeUploadRejectsLate ==
  /\ Quiet
  /\ currentFile = 0 \/ isCompleted
  /\ ncalls < MaxCalls
  /\ ncalls' = ncalls + 1
  /\ callers' = [callers EXCEPT ![ncalls + 1] = Failed(NewCall("resume", "failed"), "rejected", 0)]
  /\ isPaused' = FALSE
  /\ isUploading' = TRUE
  /\ UNCHANGED <<optVars, currentFile, fileHash, chunks, uploadSession, isCompleted,
                 isCalculatingHash, isCheckingUpload, isInitializing, isSecondTransfer,
                 executingChunks, markJobs, tasks, micro, srvVars, logVars, statVars>>

startUploadRejects ==
  /\ currentFile = 0 \/ ~fileHash
  /\ Rejected("start")

checkUploadStatusRejects ==
  /\ currentFile = 0 \/ ~fileHash
  /\ Rejected("check")

resumeUploadRejects ==
  /\ currentFile = 0 \/ isCompleted
  /\ Rejected("resume")

NextGuards ==
  \/ SelectFile
  \/ handleCalculateHash
  \/ HashWindow
  \/ HashDone
  \/ handleStartUpload
  \/ CheckResponse
  \/ MarkChunksDone
  \/ AfterCheck
  \/ InitResponse
  \/ CreateChunksDone
  \/ Loop
  \/ Settled
  \/ Ret
  \/ CompleteResponse
  \/ ChunkProgress
  \/ ChunkSuccess
  \/ ChunkFail
  \/ handlePauseUpload
  \/ handleResumeUpload
  \/ startUploadRejects
  \/ checkUploadStatusRejects
  \/ resumeUploadRejects

SpecGuards == Init /\ [][NextGuards]_vars

\* ---- the component's calls with cancelUpload and reset ------------------------
\* cancelUpload and reset are operations of the hook and can be called at any
\* time; the other calls are the ones the buttons allow.
NextTask ==
  \/ SelectFile
  \/ handleCalculateHash
  \/ HashWindow
  \/ HashDone
  \/ handleStartUpload
  \/ CheckResponse
  \/ MarkChunksDone
  \/ AfterCheck
  \/ InitResponse
  \/ CreateChunksDone
  \/ Loop
  \/ Settled
  \/ Ret
  \/ CompleteResponse
  \/ ChunkProgress
  \/ ChunkSuccess
  \/ ChunkFail
  \/ handlePauseUpload
  \/ handleResumeUpload
  \/ cancelUpload
  \/ CancelResponse
  \/ reset

SpecTask == Init /\ [][NextTask]_vars

\* ---- the fresh upload in which every request succeeds ------------------------
\* The backend knows nothing of the fingerprint, the check, initialize, chunk
\* and complete requests are answered with success, and pauseUpload,
\* cancelUpload and reset are not called.
NoFailure == \A c \in CallIds : callers'[c].pc # "failed"

FreshSelectFile == SelectFile /\ ~srvSession' /\ ~srvComplete'
CheckSucceeds == CheckResponse /\ NoFailure
InitSucceeds == InitResponse /\ NoFailure
CompleteSucceeds == CompleteResponse /\ NoFailure

NextFresh ==
  \/ FreshSelectFile
  \/ handleCalculateHash
  \/ HashWindow
  \/ HashDone
  \/ handleStartUpload
  \/ CheckSucceeds
  \/ AfterCheck
  \/ InitSucceeds
  \/ CreateChunksDone
  \/ Loop
  \/ Settled
  \/ Ret
  \/ CompleteSucceeds
  \/ ChunkProgress
  \/ ChunkSuccess

\* every response arrives and every continuation runs; the user's calls and
\* the progress events are not forced
SpecFresh ==
  /\ Init
  /\ [][NextFresh]_vars
  /\ WF_vars(HashWindow) /\ WF_vars(HashDone)
  /\ WF_vars(CheckSucceeds) /\ WF_vars(AfterCheck) /\ WF_vars(InitSucceeds)
  /\ WF_vars(CreateChunksDone) /\ WF_vars(Loop) /\ WF_vars(Settled)
  /\ WF_vars(Ret) /\ WF_vars(CompleteSucceeds) /\ WF_vars(ChunkSuccess)

\* ---- pause and resume when every request succeeds ------------------------------
\* the step makes no call fail
NoNewFailure ==
  \A c \in CallIds : callers'[c].pc = "failed" => callers[c].pc = "failed"

\* The backend may hold a session; no response reports a failure, the user
\* pauses and resumes.
NextResume ==
  \/ SelectFile
  \/ handleCalculateHash
  \/ HashWindow
  \/ HashDone
  \/ handleStartUpload
  \/ CheckResponse /\ NoNewFailure
  \/ MarkChunksDone
  \/ AfterCheck
  \/ InitResponse /\ NoNewFailure
  \/ CreateChunksDone
  \/ Loop
  \/ Settled
  \/ Ret
  \/ CompleteResponse /\ NoNewFailure
  \/ ChunkProgress
  \/ ChunkSuccess
  \/ handlePauseUpload
  \/ handleResumeUpload

\* every response arrives and every continuation runs; the user's calls and
\* the progress events are not forced
SpecResume ==
  /\ Init
  /\ [][NextResume]_vars
  /\ WF_vars(HashWindow) /\ WF_vars(HashDone)
  /\ WF_vars(CheckResponse /\ NoNewFailure) /\ WF_vars(MarkChunksDone)
  /\ WF_vars(AfterCheck) /\ WF_vars(InitResponse /\ NoNewFailure)
  /\ WF_vars(CreateChunksDone) /\ WF_vars(Loop) /\ WF_vars(Settled) /\ WF_vars(Ret)
  /\ WF_vars(CompleteResponse /\ NoNewFailure) /\ WF_vars(ChunkSuccess)

\* ==============================================================================
\* useUpload (use-file-upload.ts): the hook of the local backend.  It has no
\* session, no abort controllers and no executingChunks; it shares the state
\* variables above, and nComplete counts its merge requests.
\* ==============================================================================
\* createChunks(file, fileHashValue) of a hook whose option chunkSize is cs
LocalCreateChunksOf(size, cs) ==
  [k \in 1 .. CeilDiv(size, cs) |-> ChunkOf(k - 1, size, cs, FALSE)]

LocalCreateChunks(size) == LocalCreateChunksOf(size, chunkSize)

\* Strings are sequences of characters; "_chunk_" stands for its seven.
Digit == <<"0", "1", "2", "3", "4", "5", "6", "7", "8", "9">>

\* String(i) of the template literal, for i >= 0
RECURSIVE Decimal(_)
Decimal(i) ==
  IF i < 10 THEN <<Digit[i + 1]>> ELSE Decimal(i \div 10) \o <<Digit[(i % 10) + 1]>>

\* `${fileHashValue}_chunk_${i}`
chunkHash(fileHashValue, i) == fileHashValue \o <<"_chunk_">> \o Decimal(i)

\* Array.prototype.includes on a list of strings
Includes(list, x) == \E j \in 1 .. Len(list) : list[j] = x

\* a marking that counts the identifiers instead of matching them
LocalMarkByCount(size, cs, fileHashValue, uploadedChunkHashes) ==
  [k \in 1 .. CeilDiv(size, cs) |->
     ChunkOf(k - 1, size, cs, Len(uploadedChunkHashes) > k - 1)]

\* createChunksAndMarkUploaded(file, fileHashValue, uploadedChunkHashes) of a
\* hook whose option chunkSize is cs
LocalMark(size, cs, fileHashValue, uploadedChunkHashes) ==
  [k \in 1 .. CeilDiv(size, cs) |->
     ChunkOf(k - 1, size, cs, Includes(uploadedChunkHashes, chunkHash(fileHashValue, k - 1)))]

\* a chunk's identifier `${fileHash}_chunk_${i}` is its index i
LocalCreateChunksAndMarkUploaded(size, uploadedChunkHashes) ==
  [k \in 1 .. CeilDiv(size, chunkSize) |->
     NewChunk(k - 1, size, (k - 1) \in uploadedChunkHashes)]

LocalStartCalculateHash ==
  /\ Quiet
  /\ currentFile # 0
  /\ ~isCalculatingHash
  /\ ncalls < MaxCalls
  /\ ncalls' = ncalls + 1
  /\ callers' = [callers EXCEPT ![ncalls + 1] = NewCall("hash", "hashing")]
  /\ isCalculatingHash' = TRUE
  /\ hashProgress' = [loaded |-> 0, total |-> currentFile, percentage |-> 0]
  /\ UNCHANGED <<optVars, currentFile, fileHash, chunks, uploadSession, isUploading,
                 isPaused, isCompleted, isCheckingUpload, isInitializing,
                 isSecondTransfer, executingChunks, markJobs, tasks, micro,
                 srvVars, logVars, uploadProgress, resumeInfo, networkStats>>

LocalHashDone ==
  /\ Quiet
  /\ \E c \in CallIds :
       /\ callers[c].kind = "hash" /\ callers[c].pc = "hashing"
       /\ isCalculatingHash' = FALSE
       /\ fileHash' = TRUE
       /\ isCheckingUpload' = TRUE
       /\ callers' = [callers EXCEPT ![c].pc = "check"]
       /\ hashProgress' = [loaded |-> callers[c].file, total |-> callers[c].file,
                            percentage |-> 100]
  /\ UNCHANGED <<optVars, currentFile, chunks, uploadSession, isUploading, isPaused,
                 isCompleted, isInitializing, isSecondTransfer, executingChunks,
                 ncalls, markJobs, tasks, micro, srvVars, logVars,
                 uploadProgress, resumeInfo, networkStats>>

LocalStartUpload ==
  /\ Quiet
  /\ currentFile # 0 /\ fileHash
  /\ ncalls < MaxCalls
  /\ ncalls' = ncalls + 1
  /\ callers' = [callers EXCEPT ![ncalls + 1] = NewCall("start", "check")]
  /\ isUploading' = TRUE
  /\ isCompleted' = FALSE
  /\ isPaused' = FALSE
  /\ isSecondTransfer' = FALSE
  /\ isCheckingUpload' = TRUE
  /\ UNCHANGED <<optVars, currentFile, fileHash, chunks, uploadSession,
                 isCalculatingHash, isInitializing, executingChunks, markJobs,
                 tasks, micro, srvVars, logVars,
                 statVars>>

\* the response of the check request; createChunksAndMarkUploaded is synchronous
LocalCheckResponse ==
  /\ Quiet
  /\ \E c \in CallIds, ok \in BOOLEAN :
       LET isStart == callers[c].kind = "start" IN
       /\ callers[c].pc = "check"
       /\ isCheckingUpload' = FALSE
       /\ IF ~ok
            THEN /\ callers' = [callers EXCEPT ![c] = Failed(@, "check", 0)]
                 /\ isUploading' = IF isStart THEN FALSE ELSE isUploading
                 /\ UNCHANGED <<isSecondTransfer, isCompleted, chunks, micro>>
          ELSE IF srvComplete
            THEN /\ isSecondTransfer' = TRUE
                 /\ isCompleted' = TRUE
                 /\ isUploading' = IF isStart THEN FALSE ELSE isUploading
                 /\ callers' = [callers EXCEPT ![c].pc = "done"]
                 /\ UNCHANGED <<chunks, micro>>
          ELSE LET cs == IF srvParts # {} THEN Detach(callers) ELSE callers IN
               /\ chunks' = IF srvParts # {}
                              THEN LocalCreateChunksAndMarkUploaded(currentFile, srvParts)
                              ELSE chunks
               /\ IF isStart
                    THEN /\ callers' = [cs EXCEPT ![c].pc = "afterCheck"]
                         /\ micro' = <<AfterCheckItem(c)>>
                    ELSE /\ callers' = [cs EXCEPT ![c].pc = "done"]
                         /\ micro' = micro
               /\ UNCHANGED <<isSecondTransfer, isCompleted, isUploading>>
  /\ UNCHANGED <<optVars, currentFile, fileHash, uploadSession, isPaused,
                 isCalculatingHash, isInitializing, executingChunks, ncalls,
                 markJobs, tasks, srvVars, sent, okCount, failCount, nComplete,
                 statVars>>

\* mergeChunks is called by call c
LocalMergeChunks(c) ==
  /\ callers' = [callers EXCEPT ![c].pc = "merge"]
  /\ nComplete' = nComplete + 1

\* startUpload after the check: lines 763-791
LocalAfterCheck ==
  /\ Head1("afterCheck")
  /\ LET c == Head(micro).c
         chs == IF Len(chunks) = 0 THEN LocalCreateChunks(currentFile) ELSE chunks
     IN
       /\ chunks' = chs
       /\ IF Cardinality({k \in 1 .. Len(chs) : chs[k].uploaded}) = Len(chs)
            THEN /\ LocalMergeChunks(c)
                 /\ micro' = Tail(micro)
            ELSE /\ callers' = [callers EXCEPT ![c].pc = "loop",
                                               ![c].pending = PendingOf(chs, {}),
                                               ![c].pos = 1,
                                               ![c].executing = {},
                                               ![c].stale = FALSE]
                 /\ micro' = Tail(micro) \o <<LoopItem(c)>>
                 /\ UNCHANGED nComplete
  /\ UNCHANGED <<optVars, currentFile, fileHash, uploadSession, flagVars,
                 executingChunks, ncalls, markJobs, tasks, srvVars, sent, okCount,
                 failCount,
                 statVars>>

\* uploadChunksConcurrently: one turn of the admission loop
LocalLoop ==
  /\ Head1("loop")
  /\ LET c == Head(micro).c
         cl == callers[c]
     IN
       IF LoopLeft(cl)
         THEN \* the loop is left: Promise.all(executing)
              /\ IF cl.executing = {}
                   THEN /\ callers' = [callers EXCEPT ![c].pc = "ret"]
                        /\ micro' = Tail(micro) \o <<RetItem(c)>>
                   ELSE /\ callers' = [callers EXCEPT ![c].pc = "settle"]
                        /\ micro' = Tail(micro)
              /\ UNCHANGED <<tasks, chunks, sent>>
         ELSE \* uploadSingleChunk(chunk) up to the request of uploadChunk
              LET i == cl.pending[cl.pos]
                  ex == cl.executing \cup {i}
                  racing == Cardinality(ex) >= concurrent
              IN
                /\ callers' = [callers EXCEPT ![c].executing = ex,
                                              ![c].pos = cl.pos + 1,
                                              ![c].pc = IF racing THEN "race" ELSE "loop"]
                /\ micro' = Tail(micro) \o (IF racing THEN <<>> ELSE <<LoopItem(c)>>)
                /\ tasks' = tasks \cup {<<c, i>>}
                /\ sent' = [sent EXCEPT ![i] = @ + 1]
                /\ chunks' = IF cl.stale THEN chunks
                             ELSE [chunks EXCEPT ![i + 1].progress = 1,
                                                 ![i + 1].acAborted = FALSE]
  /\ UNCHANGED <<optVars, currentFile, fileHash, uploadSession, flagVars,
                 executingChunks, ncalls, markJobs, srvVars, okCount, failCount,
                 nComplete,
                 statVars>>

\* uploadSingleChunk after its request has settled.  As in the other hook,
\* uploadChunk returns its promise without awaiting it: a rejection is thrown by
\* `await uploadChunk(chunk)`; here nothing catches it before Promise.race or
\* Promise.all.
LocalSettled ==
  /\ Head1("settled")
  /\ LET c == Head(micro).c
         i == Head(micro).i
         cl == callers[c]
         ex == cl.executing \ {i}
     IN
       IF Head(micro).res # "ok"
         THEN IF cl.pc \in {"race", "settle"}
                THEN /\ callers' = [callers EXCEPT ![c] = Failed(@, "chunk", i)]
                     /\ isUploading' = FALSE
                     /\ micro' = Tail(micro)
                ELSE /\ micro' = Tail(micro)
                     /\ UNCHANGED <<callers, isUploading>>
       ELSE IF cl.pc = "race"
         THEN /\ callers' = [callers EXCEPT ![c].executing = ex, ![c].pc = "loop"]
              /\ micro' = Tail(micro) \o <<LoopItem(c)>>
              /\ UNCHANGED isUploading
       ELSE IF cl.pc = "settle" /\ ex = {}
         THEN /\ callers' = [callers EXCEPT ![c].executing = ex, ![c].pc = "ret"]
              /\ micro' = Tail(micro) \o <<RetItem(c)>>
              /\ UNCHANGED isUploading
       ELSE /\ callers' = [callers EXCEPT ![c].executing = ex]
            /\ micro' = Tail(micro)
            /\ UNCHANGED isUploading
  /\ UNCHANGED <<optVars, currentFile, fileHash, chunks, uploadSession, isPaused,
                 isCompleted, isCalculatingHash, isCheckingUpload, isInitializing,
                 isSecondTransfer, executingChunks, ncalls, markJobs, tasks,
                 srvVars, logVars,
                 statVars>>

\* startUpload and resumeUpload after uploadChunksConcurrently has returned
LocalRet ==
  /\ Head1("ret")
  /\ LocalMergeChunks(Head(micro).c)
  /\ micro' = Tail(micro)
  /\ UNCHANGED <<optVars, currentFile, fileHash, chunks, uploadSession, flagVars,
                 executingChunks, ncalls, markJobs, tasks, srvVars, sent, okCount,
                 failCount,
                 statVars>>

LocalMergeResponse ==
  /\ Quiet
  /\ \E c \in CallIds, ok \in BOOLEAN :
       /\ callers[c].pc = "merge"
       /\ isUploading' = FALSE
       /\ IF ok
            THEN /\ isCompleted' = TRUE
                 /\ srvComplete' = TRUE
                 /\ callers' = [callers EXCEPT ![c].pc = "done"]
            ELSE /\ callers' = [callers EXCEPT ![c] = Failed(@, "merge", 0)]
                 /\ UNCHANGED <<isCompleted, srvComplete>>
  /\ UNCHANGED <<optVars, currentFile, fileHash, chunks, uploadSession, isPaused,
                 isCalculatingHash, isCheckingUpload, isInitializing, isSecondTransfer,
                 executingChunks, ncalls, markJobs, tasks, micro, srvSession,
                 srvParts, logVars,
                 statVars>>

\* uploadChunk: the events of a request in flight
LocalChunkProgress ==
  /\ Quiet
  /\ \E t \in tasks :
       LET k == t[2] + 1 IN
         /\ ~callers[t[1]].stale
         /\ \E loaded \in 0 .. (chunks[k].end - chunks[k].start) :
              chunks' = [chunks EXCEPT ![k].progress =
                           RoundPct(loaded, chunks[k].end - chunks[k].start)]
  /\ UNCHANGED <<optVars, currentFile, fileHash, uploadSession, flagVars,
                 executingChunks, callers, ncalls, markJobs, tasks, micro, srvVars,
                 logVars,
                 statVars>>

LocalChunkSuccess ==
  /\ Quiet
  /\ \E t \in tasks :
       LET c == t[1]
           i == t[2]
       IN
         /\ tasks' = tasks \ {t}
         /\ chunks' = IF callers[c].stale THEN chunks
                      ELSE [chunks EXCEPT ![i + 1].uploaded = TRUE,
                                          ![i + 1].progress = 100]
         /\ okCount' = [okCount EXCEPT ![i] = @ + 1]
         /\ srvParts' = srvParts \cup {i}
         /\ micro' = <<SettledItem(c, i, "ok")>>
  /\ UNCHANGED <<optVars, currentFile, fileHash, uploadSession, flagVars,
                 executingChunks, callers, ncalls, markJobs, srvSession,
                 srvComplete, sent, failCount, nComplete,
                 statVars>>

LocalChunkFail ==
  /\ Quiet
  /\ \E t \in tasks :
       /\ tasks' = tasks \ {t}
       /\ failCount' = [failCount EXCEPT ![t[2]] = @ + 1]
       /\ micro' = <<SettledItem(t[1], t[2], "fail")>>
  /\ UNCHANGED <<optVars, currentFile, fileHash, chunks, uploadSession, flagVars,
                 executingChunks, callers, ncalls, markJobs, srvVars, sent, okCount,
                 nComplete,
                 statVars>>

\* The 30 s timer of uploadChunk fires while its request is in flight:
\* controller.abort().  The controller of the local hook is wired to nothing
\* (no listener on its signal, xhr.timeout is not set), so the request stays
\* in flight; acAborted records the controller's signal.
LocalChunkTimeout ==
  /\ Quiet
  /\ \E t \in tasks :
       /\ ~callers[t[1]].stale
       /\ ~chunks[t[2] + 1].acAborted
       /\ chunks' = [chunks EXCEPT ![t[2] + 1].acAborted = TRUE]
  /\ UNCHANGED <<optVars, currentFile, fileHash, uploadSession, flagVars,
                 executingChunks, callers, ncalls, markJobs, tasks, micro, srvVars,
                 logVars, statVars>>

LocalPauseUpload ==
  /\ Quiet
  /\ isPaused' = TRUE
  /\ UNCHANGED <<optVars, currentFile, fileHash, chunks, uploadSession, isUploading,
                 isCompleted, isCalculatingHash, isCheckingUpload, isInitializing,
                 isSecondTransfer, executingChunks, callers, ncalls, markJobs,
                 tasks, micro, srvVars, logVars,
                 statVars>>

LocalResumeUpload ==
  /\ Quiet
  /\ currentFile # 0 /\ ~isCompleted
  /\ ncalls < MaxCalls
  /\ ncalls' = ncalls + 1
  /\ isPaused' = FALSE
  /\ isUploading' = TRUE
  /\ callers' = [callers EXCEPT ![ncalls + 1] =
                   [NewCall("resume", "loop") EXCEPT !.pending = PendingOf(chunks, {})]]
  /\ micro' = <<LoopItem(ncalls + 1)>>
  /\ UNCHANGED <<optVars, currentFile, fileHash, chunks, uploadSession, isCompleted,
                 isCalculatingHash, isCheckingUpload, isInitializing,
                 isSecondTransfer, executingChunks, markJobs, tasks, srvVars,
                 logVars,
                 statVars>>

\* The caller of the hook starts a task that is not running, pauses one whose
\* pass is waiting for its chunk requests and resumes a paused one.
LocalStartWhenIdle ==
  /\ ~isUploading /\ ~isCalculatingHash /\ ~isCheckingUpload /\ ~isSecondTransfer
  /\ LocalStartUpload

LocalPauseWhileTransferring ==
  /\ isUploading /\ ~isPaused
  /\ \E c \in CallIds : callers[c].pc \in {"race", "settle"}
  /\ LocalPauseUpload

LocalResumeAfterPause ==
  /\ fileHash /\ isPaused
  /\ LocalResumeUpload

NextLocal ==
  \/ SelectFile
  \/ LocalStartCalculateHash
  \/ LocalHashDone
  \/ LocalStartWhenIdle
  \/ LocalCheckResponse
  \/ LocalAfterCheck
  \/ LocalLoop
  \/ LocalSettled
  \/ LocalRet
  \/ LocalMergeResponse
  \/ LocalChunkProgress
  \/ LocalChunkSuccess
  \/ LocalChunkFail
  \/ LocalPauseWhileTransferring
  \/ LocalResumeAfterPause

SpecLocal == Init /\ [][NextLocal]_vars

\* ---- the fresh upload of useUpload in which every request succeeds -------------
LocalCheckSucceeds == LocalCheckResponse /\ NoFailure
LocalMergeSucceeds == LocalMergeResponse /\ NoFailure

NextLocalFresh ==
  \/ FreshSelectFile
  \/ LocalStartCalculateHash
  \/ LocalHashDone
  \/ LocalStartWhenIdle
  \/ LocalCheckSucceeds
  \/ LocalAfterCheck
  \/ LocalLoop
  \/ LocalSettled
  \/ LocalRet
  \/ LocalMergeSucceeds
  \/ LocalChunkProgress
  \/ LocalChunkSuccess

\* every response arrives and every continuation runs
SpecLocalFresh ==
  /\ Init
  /\ [][NextLocalFresh]_vars
  /\ WF_vars(LocalHashDone) /\ WF_vars(LocalCheckSucceeds) /\ WF_vars(LocalAfterCheck)
  /\ WF_vars(LocalLoop) /\ WF_vars(LocalSettled) /\ WF_vars(LocalRet)
  /\ WF_vars(LocalMergeSucceeds) /\ WF_vars(LocalChunkSuccess)

\* ---- useUpload when chunk requests may stay without a response ----------------
NextLocalTimeout ==
  \/ FreshSelectFile
  \/ LocalStartCalculateHash
  \/ LocalHashDone
  \/ LocalStartWhenIdle
  \/ LocalCheckSucceeds
  \/ LocalAfterCheck
  \/ LocalLoop
  \/ LocalSettled
  \/ LocalRet
  \/ LocalMergeSucceeds
  \/ LocalChunkProgress
  \/ LocalChunkSuccess
  \/ LocalChunkTimeout

\* every continuation runs and every timer fires; no response is forced
SpecLocalTimeout ==
  /\ Init
  /\ [][NextLocalTimeout]_vars
  /\ WF_vars(LocalHashDone) /\ WF_vars(LocalAfterCheck) /\ WF_vars(LocalLoop)
  /\ WF_vars(LocalSettled) /\ WF_vars(LocalRet) /\ WF_vars(LocalChunkTimeout)

\* ==============================================================================
\* The fingerprint computation with reads that can fail: startCalculateHash
\* called on the hook, the windows of calculateFileHash and the check request
\* that follows them.
\* ==============================================================================
\* a failed read that leaves isCalculatingHash alone
HashReadErrorKeepsFlag ==
  /\ Quiet
  /\ \E c \in CallIds :
       /\ callers[c].kind = "hash" /\ callers[c].pc = "hashing"
       /\ callers' = [callers EXCEPT ![c] = Failed(@, "read", 0)]
  /\ UNCHANGED <<optVars, currentFile, fileHash, chunks, uploadSession, flagVars,
                 executingChunks, ncalls, markJobs, tasks, micro, srvVars, logVars,
                 statVars>>

\* fileReader.onerror: the read of the window in hand fails
HashReadError ==
  /\ Quiet
  /\ \E c \in CallIds :
       /\ callers[c].kind = "hash" /\ callers[c].pc = "hashing"
       /\ callers' = [callers EXCEPT ![c] = Failed(@, "read", 0)]
  /\ isCalculatingHash' = FALSE
  /\ UNCHANGED <<optVars, currentFile, fileHash, chunks, uploadSession, isUploading,
                 isPaused, isCompleted, isCheckingUpload, isInitializing,
                 isSecondTransfer, executingChunks, ncalls, markJobs, tasks, micro,
                 srvVars, logVars, statVars>>

NextHash ==
  \/ SelectFile
  \/ StartCalculateHash
  \/ HashWindow
  \/ HashDone
  \/ HashReadError
  \/ CheckResponse
  \/ MarkChunksDone

SpecHash == Init /\ [][NextHash]_vars

\* ==============================================================================
\* The speed tracker of both hooks (updateNetworkStats, resetNetworkStats), called
\* on its own with byte counts and clock readings.
\* ==============================================================================
MeasureSpeed ==
  /\ networkStats.lastMeasureTime < MaxTime
  /\ \E uploadedBytes \in 0 .. MaxTrackBytes, now \in Clock :
       networkStats' = updateNetworkStatsAt(uploadedBytes, now)
  /\ UNCHANGED <<optVars, currentFile, fileHash, chunks, uploadSession, flagVars,
                 executingChunks, callers, ncalls, markJobs, tasks, micro, srvVars,
                 logVars, uploadProgress, hashProgress, resumeInfo>>

resetNetworkStats ==
  /\ networkStats # NoStats
  /\ networkStats' = NoStats
  /\ UNCHANGED <<optVars, currentFile, fileHash, chunks, uploadSession, flagVars,
                 executingChunks, callers, ncalls, markJobs, tasks, micro, srvVars,
                 logVars, uploadProgress, hashProgress, resumeInfo>>

NextTracker ==
  \/ MeasureSpeed
  \/ resetNetworkStats

SpecTracker == Init /\ [][NextTracker]_vars

\* ==============================================================================
\* The operations behind the buttons with the speed tracker in full: the progress
\* listener of uploadChunk with the bytes of its event and the reading of the
\* clock.  The events of one request report growing byte counts.
\* ==============================================================================
ProgressMeasured ==
  /\ Quiet
  /\ networkStats.lastMeasureTime < MaxPassTime
  /\ \E t \in tasks :
       LET c == t[1]
           k == t[2] + 1
           size == chunks[k].end - chunks[k].start
       IN \E loaded \in 0 .. size, now \in Clock :
            /\ IF callers[c].stale
                 THEN chunks' = chunks
                 ELSE /\ ~chunks[k].acAborted
                      /\ RoundPct(loaded, size) >= chunks[k].progress
                      /\ chunks' = [chunks EXCEPT ![k].progress = RoundPct(loaded, size)]
            /\ networkStats' = updateNetworkStatsAt(uploadedSize(chunks) + loaded, now)
  /\ uploadProgress' = updateTotalProgress(chunks')
  /\ UNCHANGED <<optVars, currentFile, fileHash, uploadSession, flagVars,
                 executingChunks, callers, ncalls, markJobs, tasks, micro, srvVars,
                 logVars, hashProgress, resumeInfo>>

NextSpeed ==
  \/ SelectFile
  \/ handleCalculateHash
  \/ HashWindow
  \/ HashDone
  \/ handleStartUpload
  \/ CheckResponse
  \/ MarkChunksDone
  \/ AfterCheck
  \/ InitResponse
  \/ CreateChunksDone
  \/ Loop
  \/ Settled
  \/ Ret
  \/ CompleteResponse
  \/ ProgressMeasured
  \/ ChunkSuccess
  \/ ChunkFail
  \/ handlePauseUpload
  \/ handleResumeUpload

SpecSpeed == Init /\ [][NextSpeed]_vars

\* ==============================================================================
\* The chunk planners of both hooks, each called once on its own arguments.
\* ==============================================================================
PlanHashes == {<<"a">>, <<"a", "_chunk_", "1">>}

\* identifiers a check response can list: of either fingerprint, and one of none
PlanIds ==
  {chunkHash(h, i) : h \in PlanHashes, i \in 0 .. MaxPlanIdx} \cup {<<"x">>}

PlanLists == UNION {[1 .. n -> PlanIds] : n \in 0 .. MaxPlanList}

PlanInputs ==
  {[NoPlan EXCEPT !.fileSize = size, !.chunkSize = cs, !.fileHash = h,
                  !.uploadedParts = up, !.uploadedChunkHashes = l] :
     size \in 1 .. MaxPlanSize, cs \in 1 .. MaxPlanChunk, h \in PlanHashes,
     up \in 0 .. MaxPlanSize, l \in PlanLists}

InitPlan ==
  /\ planner \in PlanInputs
  /\ concurrent = 1
  /\ currentFile = planner.fileSize
  /\ fileHash = TRUE
  /\ chunks = <<>>
  /\ uploadSession = FALSE
  /\ isUploading = FALSE
  /\ isPaused = FALSE
  /\ isCompleted = FALSE
  /\ isCalculatingHash = FALSE
  /\ isCheckingUpload = FALSE
  /\ isInitializing = FALSE
  /\ isSecondTransfer = FALSE
  /\ executingChunks = {}
  /\ callers = [c \in CallIds |-> NoCall]
  /\ ncalls = 0
  /\ markJobs = [c \in CallIds |-> NoSession]
  /\ tasks = {}
  /\ micro = <<>>
  /\ srvSession = FALSE
  /\ srvParts = {}
  /\ srvComplete = FALSE
  /\ sent = [i \in ChunkIdx |-> 0]
  /\ okCount = [i \in ChunkIdx |-> 0]
  /\ failCount = [i \in ChunkIdx |-> 0]
  /\ nComplete = 0
  /\ uploadProgress = NoProgress
  /\ hashProgress = NoProgress
  /\ resumeInfo = NoResumeInfo
  /\ networkStats = NoStats

\* what a planner call leaves alone
PlanFrame ==
  UNCHANGED <<concurrent, currentFile, fileHash, uploadSession, flagVars, executingChunks,
              callers, ncalls, markJobs, tasks, micro, srvVars, logVars,
              hashProgress, resumeInfo, networkStats>>

\* createChunks of useS3Upload returns the list
PlanCreateChunks ==
  /\ planner.fn = "none"
  /\ planner' = [planner EXCEPT !.fn = "createChunks",
                                !.out = createChunksOf(planner.fileSize, planner.chunkSize)]
  /\ UNCHANGED <<chunks, uploadProgress>>
  /\ PlanFrame

\* createChunksAndMarkUploaded of useS3Upload assigns chunks.value and
\* calls updateTotalProgress
PlanCreateChunksAndMarkUploaded ==
  /\ planner.fn = "none"
  /\ LET out == createChunksAndMarkUploadedOf(planner.fileSize, planner.chunkSize,
                   [uploadedParts |-> planner.uploadedParts, parts |-> {}])
     IN /\ planner' = [planner EXCEPT !.fn = "createChunksAndMarkUploaded", !.out = out]
        /\ chunks' = out
        /\ uploadProgress' = updateTotalProgress(out)
  /\ PlanFrame

\* createChunks of useUpload returns the list
PlanLocalCreateChunks ==
  /\ planner.fn = "none"
  /\ planner' = [planner EXCEPT !.fn = "LocalCreateChunks",
                                !.out = LocalCreateChunksOf(planner.fileSize, planner.chunkSize)]
  /\ UNCHANGED <<chunks, uploadProgress>>
  /\ PlanFrame

\* createChunksAndMarkUploaded of useUpload assigns chunks.value and calls
\* updateTotalProgress
PlanLocalMark ==
  /\ planner.fn = "none"
  /\ LET out == LocalMark(planner.fileSize, planner.chunkSize, planner.fileHash,
                          planner.uploadedChunkHashes)
     IN /\ planner' = [planner EXCEPT !.fn = "LocalMark", !.out = out]
        /\ chunks' = out
        /\ uploadProgress' = updateTotalProgress(out)
  /\ PlanFrame

\* createChunksAndMarkUploaded of useUpload is called again with the same list
PlanLocalMarkAgain ==
  /\ planner.fn = "LocalMark"
  /\ planner.again = <<>>
  /\ LET out == LocalMark(planner.fileSize, planner.chunkSize, planner.fileHash,
                          planner.uploadedChunkHashes)
     IN /\ planner' = [planner EXCEPT !.again = out]
        /\ chunks' = out
        /\ uploadProgress' = updateTotalProgress(out)
  /\ PlanFrame

NextPlan ==
  \/ PlanCreateChunks
  \/ PlanCreateChunksAndMarkUploaded
  \/ PlanLocalCreateChunks
  \/ PlanLocalMark
  \/ PlanLocalMarkAgain

SpecPlan == InitPlan /\ [][NextPlan]_vars

\* ---- request log and chunk list -------------------------------------------
InFlight(i) == {t \in tasks : t[2] = i}

\* the chunk list covers the whole file and every chunk is marked uploaded
AllChunksUploaded ==
  /\ currentFile # 0
  /\ Len(chunks) = CeilDiv(currentFile, chunkSize)
  /\ \A k \in 1 .. Len(chunks) :
       /\ chunks[k].uploaded
       /\ chunks[k].start = (k - 1) * chunkSize
       /\ chunks[k].end = Min(k * chunkSize, currentFile)

\* pauseUpload has run, its aborts have settled, and no resumeUpload,
\* startUpload or cancelUpload has run since
PausedAndSettled ==
  /\ isPaused
  /\ Quiet
  /\ \A c \in CallIds : callers[c].kind # "cancel"
  /\ \E c \in CallIds : callers[c].kind \in {"start", "resume"}

\* C1: the complete request is sent only when the chunk list covers the whole
\* file and every chunk is marked uploaded.
C1_CompleteOnlyWhenAllUploaded ==
  [][nComplete' > nComplete => AllChunksUploaded]_vars

\* C2: under pauseUpload / resumeUpload, no chunk's upload request succeeds more
\* than once in the task (every request sends its chunk from byte 0).
C2_NoChunkUploadedTwice ==
  \A i \in ChunkIdx : okCount[i] <= 1

\* C3: no chunk ever has two upload requests in flight at the same time.
C3_OneRequestPerChunk ==
  \A i \in ChunkIdx : Cardinality(InFlight(i)) <= 1

\* C4: the number of chunk requests in flight never exceeds `concurrent`.
C4_AtMostConcurrentInFlight ==
  Cardinality(tasks) <= concurrent

\* C5: a chunk whose request has failed fewer than retryTimes times (not by a
\* cancellation) is retried and does not make the scheduling pass or its caller
\* fail.
C5_FailureBelowLimitIsRetried ==
  \A c \in CallIds :
    callers[c].err = "chunk" => failCount[callers[c].errChunk] >= retryTimes

\* C6: when a call fails on a chunk, the chunk has been attempted exactly
\* retryTimes times, its retryCount is retryTimes and it is not uploaded.
C6_FailsAfterExactlyRetryTimes ==
  \A c \in CallIds :
    (callers[c].err = "chunk" /\ ~callers[c].stale) =>
      LET i == callers[c].errChunk IN
        /\ sent[i] = retryTimes
        /\ chunks[i + 1].retryCount = retryTimes
        /\ ~chunks[i + 1].uploaded

\* C7: reconciliation marks uploaded (progress 100) exactly the chunks the
\* backend holds, and leaves every other chunk pending (progress 0).
C7_MarksExactlyBackendParts ==
  [][\A c \in CallIds :
       (markJobs[c] # NoSession /\ markJobs'[c] = NoSession) =>
         \A k \in 1 .. Len(chunks') :
           /\ chunks'[k].uploaded <=> (chunks'[k].index \in markJobs[c].parts)
           /\ chunks'[k].progress = IF chunks'[k].uploaded THEN 100 ELSE 0]_vars

\* C8: once pauseUpload has run during a transfer and its aborts have settled,
\* no chunk request is in flight, every chunk that is not uploaded has progress
\* 0, and executingChunks is empty.
C8_PauseQuiesces ==
  PausedAndSettled =>
    /\ tasks = {}
    /\ \A k \in 1 .. Len(chunks) : ~chunks[k].uploaded => chunks[k].progress = 0
    /\ executingChunks = {}

\* C9: in useUpload, the merge request is sent only when the chunk list covers
\* the whole file and every chunk is marked uploaded, also when pauseUpload is
\* called during the transfer.
C9_MergeOnlyWhenAllUploaded ==
  [][\A c \in CallIds :
       (callers[c].pc # "merge" /\ callers'[c].pc = "merge") => AllChunksUploaded]_vars

\* C10: in useUpload, no request of a resumeUpload call is for a chunk that has
\* another request in flight, and no chunk's request succeeds twice.
C10_ResumeStartsNoDuplicate ==
  /\ \A t \in tasks : callers[t[1]].kind = "resume" => InFlight(t[2]) = {t}
  /\ \A i \in ChunkIdx : okCount[i] < 2

\* C11: when the check of a startUpload reports the file as existing and
\* complete, startUpload ends there with isCompleted and isSecondTransfer true
\* and isUploading false; the step creates no session and sends no initialize,
\* chunk or complete request, and the call sends none afterwards.
C11_InstantTransferSendsNothing ==
  [][\A c \in CallIds :
       /\ (/\ callers[c].kind = "start" /\ callers[c].pc = "check"
           /\ srvComplete
           /\ callers'[c].pc \notin {"check", "failed"}) =>
             /\ callers'[c].pc = "instant"
             /\ isCompleted' /\ isSecondTransfer' /\ ~isUploading'
             /\ UNCHANGED <<uploadSession, srvSession, sent, nComplete, tasks>>
             /\ \A d \in CallIds : callers'[d].pc = "init" => callers[d].pc = "init"
       /\ callers[c].pc = "instant" =>
             /\ callers'[c].pc = "instant"
             /\ \A t \in tasks' : t[1] # c]_vars

C11_InstantTransferReached ==
  \E c \in CallIds :
    /\ callers[c].pc = "instant"
    /\ isCompleted /\ isSecondTransfer /\ ~isUploading /\ sent = [i \in ChunkIdx |-> 0]

\* C12: on a fresh session where every request succeeds and nothing pauses,
\* cancels or resets, every startUpload eventually has ended with isCompleted
\* true, every chunk uploaded and uploadedSize equal to the file size, and one
\* complete request has been sent, never more.
C12_FreshUploadCompletes ==
  /\ [](nComplete <= 1)
  /\ \A c \in CallIds :
       (callers[c].kind = "start") ~>
         (/\ callers[c].pc \in {"done", "instant"}
          /\ isCompleted
          /\ AllChunksUploaded
          /\ uploadedSize(chunks) = currentFile
          /\ nComplete = 1)

C12_FreshUploadCompleted ==
  /\ \E c \in CallIds : callers[c].kind = "start" /\ callers[c].pc = "done"
  /\ isCompleted /\ AllChunksUploaded /\ Len(chunks) > 1
  /\ uploadedSize(chunks) = currentFile
  /\ nComplete = 1

\* ---- resumeUpload from the paused state -----------------------------------
\* the step is a resumeUpload call made while isPaused
ResumeFromPaused == isPaused /\ ncalls' = ncalls + 1 /\ callers'[ncalls'].kind = "resume"

\* the pending list of call c holds exactly the chunks not marked uploaded,
\* each once, in list order
AdmitsExactlyNotUploaded(c) ==
  LET pending == callers'[c].pending IN
  /\ \A i \in ChunkIdx :
       (\E q \in 1 .. Len(pending) : pending[q] = i) <=>
         (i < Len(chunks) /\ ~chunks[i + 1].uploaded)
  /\ \A q, r \in 1 .. Len(pending) : q < r => pending[q] < pending[r]

\* the chunks whose request pauseUpload has aborted and that have not been
\* sent again
Interrupted == {k \in 1 .. Len(chunks) : ~chunks[k].uploaded /\ chunks[k].acAborted}

CancelCalled == ncalls' = ncalls + 1 /\ callers'[ncalls'].kind = "cancel"

\* cancelUpload call c returns in this step
CancelReturns(c) ==
  /\ callers'[c].kind = "cancel" /\ callers'[c].pc = "done"
  /\ callers[c].pc # "done"

\* no startUpload or resumeUpload has been called after call c, and no reset
NothingCalledSince(c) ==
  /\ currentFile' # 0
  /\ \A d \in CallIds : d > c => callers'[d].kind \notin {"start", "resume"}

\* C14: cancelUpload aborts every chunk request in flight and sends a cancel
\* request if and only if a session exists; whether or not that request fails,
\* cancelUpload returns with isUploading false, isPaused true and the speed
\* state reset (unless the caller has started something else meanwhile).
C14_CancelAbortsEveryRequest ==
  [][/\ CancelCalled =>
          /\ tasks' = {}
          /\ (callers'[ncalls'].pc = "cancel") <=> uploadSession
          /\ (callers'[ncalls'].pc = "done") <=> ~uploadSession
     /\ \A c \in CallIds :
          (CancelReturns(c) /\ NothingCalledSince(c)) =>
            ~isUploading' /\ isPaused' /\ networkStats' = NoStats]_vars

\* cancelUpload has been called while the fingerprint computation of call c
\* was running
CancelledWhileHashing(c) ==
  /\ callers[c].kind = "hash" /\ callers[c].pc = "hashing"
  /\ \E d \in CallIds : d > c /\ callers[d].kind = "cancel"

\* C15: once cancelUpload has been called during a fingerprint computation,
\* the computation reads no further window, does not set fileHash and sends
\* no check request.
C15_CancelStopsFingerprint ==
  [][\A c \in CallIds :
       CancelledWhileHashing(c) =>
         /\ callers'[c].pos = callers[c].pos
         /\ callers'[c].pc = "hashing"
         /\ fileHash' => fileHash]_vars

\* the task has been cancelled: cancelUpload has been called, reset has not,
\* and startUpload has not been called since
Cancelled ==
  /\ currentFile # 0
  /\ \E d \in CallIds :
       /\ callers[d].kind = "cancel"
       /\ \A e \in CallIds : e > d => callers[e].kind # "start"

\* C16: no chunk request is sent for a cancelled task; a resumeUpload call on
\* it sends none.
C16_NoChunkRequestAfterCancel ==
  [][Cancelled => sent' = sent]_vars

\* ---- reset ------------------------------------------------------------------
\* the state of a task that has not been given a file
Idle ==
  /\ ~isUploading /\ ~isPaused /\ ~isCompleted /\ ~isCalculatingHash
  /\ ~isCheckingUpload /\ ~isInitializing /\ ~isSecondTransfer
  /\ currentFile = 0
  /\ ~fileHash
  /\ chunks = <<>>
  /\ ~uploadSession
  /\ resumeInfo = NoResumeInfo
  /\ executingChunks = {}
  /\ uploadProgress = NoProgress
  /\ hashProgress = NoProgress
  /\ networkStats = NoStats

\* C17: immediately after reset(), called from any state, the task is idle:
\* every status flag is false, there is no file, no fingerprint, no chunk, no
\* session, no resume info, executingChunks is empty, and upload progress,
\* hash progress and speed state are zero.
C17_ResetReturnsToIdle ==
  [][(reset \/ (currentFile # 0 /\ currentFile' = 0)) => Idle']_vars

\* reset has been called while chunk requests were in flight
C17_ResetDuringTransfer ==
  /\ Idle
  /\ tasks # {}
  /\ \E c \in CallIds : callers[c].kind \in {"start", "resume"} /\ callers[c].executing # {}

\* reset has been called after some operation had been started; a file is
\* selected once, so the caller can start no new operation on the task
AfterReset == currentFile = 0 /\ ncalls > 0

\* the step is none of the caller's: no call is made and reset is not called
InFlightStep == ncalls' = ncalls /\ ~reset

\* C18: after reset() the operations that were in flight send no further
\* request and change none of fileHash, chunks, session, isCompleted,
\* isUploading and the speed state.
C18_NothingChangesAfterReset ==
  [][(AfterReset /\ InFlightStep) =>
       /\ UNCHANGED <<fileHash, chunks, uploadSession, isCompleted, isUploading,
                      networkStats>>
       /\ UNCHANGED <<sent, nComplete>>
       /\ \A c \in CallIds :
            callers'[c].pc \in {"check", "init", "complete", "cancel"} =>
              callers'[c].pc = callers[c].pc]_vars

\* ---- a failed pass -----------------------------------------------------------
\* call c has rejected because a chunk failed
PassFailed(c) == callers[c].pc = "failed" /\ callers[c].err = "chunk"

\* C19: once startUpload or resumeUpload has rejected on a chunk failure, no
\* chunk request of its pass is in flight.
C19_FailedPassHasNothingInFlight ==
  \A c \in CallIds : PassFailed(c) => \A t \in tasks : t[1] # c

\* call c rejects in this step on a chunk failure or a failed complete request
Fails(c) ==
  /\ callers[c].pc # "failed"
  /\ callers'[c].pc = "failed" /\ callers'[c].err \in {"chunk", "complete"}

\* call d is a startUpload that follows a call failed in that way
FollowingStart(d) ==
  /\ callers[d].kind = "start"
  /\ \E c \in CallIds :
       c < d /\ callers[c].pc = "failed" /\ callers[c].err \in {"chunk", "complete"}

\* the step is the reconciliation of call d's check, or sends a chunk for d
StepOf(d) ==
  \/ markJobs[d] # NoSession /\ markJobs'[d] = NoSession
  \/ \E t \in tasks' \ tasks : t[1] = d

\* every chunk marked uploaded stays marked uploaded and is not sent
UploadedKept ==
  \A k \in 1 .. Len(chunks) :
    chunks[k].uploaded =>
      /\ k <= Len(chunks') /\ chunks'[k].uploaded
      /\ sent'[chunks[k].index] = sent[chunks[k].index]

\* C20: a chunk marked uploaded stays marked uploaded when a call fails on
\* another chunk or on the complete request, and a following startUpload
\* neither unmarks it nor sends a chunk request for it.
C20_UploadedStaysUploaded ==
  [][\A d \in CallIds :
       (Fails(d) \/ (FollowingStart(d) /\ StepOf(d))) => UploadedKept]_vars

\* ---- pause during a transfer ---------------------------------------------------
\* call c has admitted a chunk of its pass, so it has been transferring
Transferred(c) == callers[c].pending # <<>> /\ callers[c].pos > 1

\* C21: a startUpload that is transferring when pauseUpload is called does not
\* reject because of the pause, and the pause increases no chunk's retryCount.
C21_PauseDoesNotFailStart ==
  /\ \A c \in CallIds :
       (callers[c].kind = "start" /\ callers[c].pc = "failed" /\ Transferred(c)) =>
         callers[c].err # "paused"
  /\ isPaused => \A k \in 1 .. Len(chunks) : chunks[k].retryCount = 0

\* ---- failed reconciliation ------------------------------------------------------
\* startUpload call c rejects in this step because its check or its initialize
\* request has failed
ReconciliationFails(c) ==
  /\ callers[c].kind = "start" /\ callers[c].pc \in {"check", "init"}
  /\ callers'[c].pc = "failed" /\ callers'[c].err \in {"check", "init"}

\* C22: when the check or the initialize request of a startUpload fails,
\* startUpload rejects with isUploading, isCheckingUpload, isInitializing and
\* isCompleted false, having sent no chunk request and no complete request.
C22_FailedReconciliationSendsNothing ==
  [][\A c \in CallIds :
       ReconciliationFails(c) =>
         /\ ~isUploading' /\ ~isCheckingUpload' /\ ~isInitializing' /\ ~isCompleted'
         /\ callers'[c].pending = <<>> /\ callers'[c].executing = {}
         /\ \A t \in tasks' : t[1] # c
         /\ UNCHANGED <<sent, nComplete>>]_vars

\* the calls whose check or initialize request is outstanding
Reconciling == {c \in CallIds : callers[c].pc \in {"check", "init"}}

\* C23: at most one check or initialize request of the task is outstanding at
\* any time.
C23_OneReconciliationAtATime ==
  Cardinality(Reconciling) <= 1

\* ---- guards ----------------------------------------------------------------------
\* an operation of the given kind is called in this step
Called(kind) == ncalls' = ncalls + 1 /\ callers'[ncalls'].kind = kind

\* the call of this step is rejected and the step changes nothing else
RejectedUnchanged ==
  /\ callers'[ncalls'].pc = "failed"
  /\ \A c \in CallIds : c # ncalls' => callers'[c] = callers[c]
  /\ UNCHANGED <<currentFile, fileHash, chunks, uploadSession, flagVars,
                 executingChunks, markJobs, tasks, micro, srvVars, logVars, statVars>>

\* C24: startUpload and checkUploadStatus called without a file or without a
\* fingerprint, and resumeUpload called without a file or on a completed
\* task, are rejected: no request is sent and no task state changes.
C24_GuardsRejectWithoutEffect ==
  [][/\ (Called("start") /\ (currentFile = 0 \/ ~fileHash)) => RejectedUnchanged
     /\ (Called("check") /\ (currentFile = 0 \/ ~fileHash)) => RejectedUnchanged
     /\ (Called("resume") /\ (currentFile = 0 \/ isCompleted)) => RejectedUnchanged]_vars

\* resumeUpload has been rejected on a completed task
C24_ResumeRejectedWhenCompleted ==
  /\ isCompleted /\ currentFile # 0 /\ nComplete = 1
  /\ \E c \in CallIds :
       callers[c].kind = "resume" /\ callers[c].pc = "failed" /\ callers[c].err = "rejected"

\* ---- chunk planners -------------------------------------------------------------
\* the sum of the chunk lengths of the list chs
PlannedBytes(chs) ==
  LET F[k \in 0 .. Len(chs)] ==
        IF k = 0 THEN 0 ELSE F[k - 1] + (chs[k].end - chs[k].start)
  IN F[Len(chs)]

\* the list chs cuts a file of the given size into chunks of cs bytes
WellPlanned(chs, size, cs) ==
  /\ (Len(chs) - 1) * cs < size /\ size <= Len(chs) * cs
  /\ \A k \in 1 .. Len(chs) : chs[k].index = k - 1
  /\ chs[1].start = 0
  /\ \A k \in 1 .. (Len(chs) - 1) : chs[k + 1].start = chs[k].end
  /\ chs[Len(chs)].end = size
  /\ \A k \in 1 .. Len(chs) :
       chs[k].end - chs[k].start >= 1 /\ chs[k].end - chs[k].start <= cs
  /\ PlannedBytes(chs) = size

ByteRanges(chs) == [k \in 1 .. Len(chs) |-> <<chs[k].start, chs[k].end>>]

\* C25: for every file size and chunk size above 0 the planners of both hooks
\* return ceil(fileSize / chunkSize) chunks, indexed 0 .. n-1 in order, that
\* start at 0, are contiguous, end at fileSize, are neither empty nor longer
\* than chunkSize and add up to fileSize; createChunksAndMarkUploaded plans
\* the byte ranges createChunks plans.
C25_PlannersCutTheWholeFile ==
  planner.fn # "none" =>
    /\ WellPlanned(planner.out, planner.fileSize, planner.chunkSize)
    /\ planner.fn = "createChunksAndMarkUploaded" =>
         ByteRanges(planner.out) =
           ByteRanges(createChunksOf(planner.fileSize, planner.chunkSize))
    /\ planner.fn = "LocalMark" =>
         ByteRanges(planner.out) =
           ByteRanges(LocalCreateChunksOf(planner.fileSize, planner.chunkSize))

\* a file that is no multiple of the chunk size has been cut into three chunks
C25_ShortLastChunkPlanned ==
  /\ planner.fn = "createChunks"
  /\ planner.fileSize = 5 /\ planner.chunkSize = 2
  /\ Len(planner.out) = 3

\* C26: createChunksAndMarkUploaded of useUpload marks chunk i uploaded, with
\* progress 100, exactly when its identifier is in the uploadedChunks list, in
\* whatever order and number the list names them; identifiers of no planned
\* chunk are ignored; a second run with the same list gives the same marking.
C26_MarkedIffListed ==
  planner.fn = "LocalMark" =>
    /\ Len(planner.out) = Len(LocalCreateChunksOf(planner.fileSize, planner.chunkSize))
    /\ \A k \in 1 .. Len(planner.out) :
         /\ planner.out[k].uploaded <=>
              \E j \in 1 .. Len(planner.uploadedChunkHashes) :
                planner.uploadedChunkHashes[j] = chunkHash(planner.fileHash, k - 1)
         /\ planner.out[k].progress = (IF planner.out[k].uploaded THEN 100 ELSE 0)
    /\ chunks = planner.out
    /\ planner.again # <<>> => planner.again = planner.out

\* the list names chunk 1, twice, after an identifier of no planned chunk; the
\* planner has run twice and only chunk 1 is marked
C26_ListedOutOfOrder ==
  /\ planner.fn = "LocalMark" /\ planner.again # <<>>
  /\ Len(planner.out) = 3
  /\ planner.uploadedChunkHashes =
       <<<<"x">>, chunkHash(planner.fileHash, 1), chunkHash(planner.fileHash, 1)>>
  /\ ~planner.out[1].uploaded /\ planner.out[2].uploaded /\ ~planner.out[3].uploaded

\* ---- chunk list and transfers ---------------------------------------------------
\* C27: the chunk list is never replaced while a scheduling pass is active or
\* a chunk request is in flight: the chunk objects the requests in flight
\* work on are those of chunks.value.
C27_TransfersWorkOnChunkList ==
  \A t \in tasks : ~callers[t[1]].stale

\* ---- admission --------------------------------------------------------------------
\* call c is in the admission loop of uploadChunksConcurrently or waits for
\* its outstanding tasks
Admitting(c) == callers[c].pc \in {"loop", "race", "settle"}

\* C28: within one call of uploadChunksConcurrently, with no pause and no
\* failure, the chunks are admitted in index order and each at most once, the
\* outstanding chunk tasks never exceed `concurrent`, a pass with a free slot
\* and a pending chunk admits it, and every pending chunk is admitted in the end.
C28_AdmissionInOrderWithinLimit ==
  /\ [](\A i \in ChunkIdx :
          /\ sent[i] <= 1
          /\ sent[i] = 1 => \A j \in 0 .. (i - 1) : sent[j] = 1)
  /\ [](/\ Cardinality(tasks) <= concurrent
        /\ \A c \in CallIds : Cardinality(callers[c].executing) <= concurrent)
  /\ \A c \in CallIds : \A k \in 1 .. MaxChunks :
       (/\ Admitting(c) /\ callers[c].pos = k /\ k <= Len(callers[c].pending)
        /\ Cardinality(callers[c].executing) < concurrent)
         ~> (/\ callers[c].pos > k /\ k <= Len(callers[c].pending)
             /\ sent[callers[c].pending[k]] = 1)
  /\ \A c \in CallIds : \A i \in ChunkIdx :
       (Admitting(c) /\ \E k \in 1 .. Len(callers[c].pending) : callers[c].pending[k] = i)
         ~> (sent[i] = 1)

\* with concurrent = 1, chunk 1 has been admitted after chunk 0 was uploaded
C28_NextAdmittedAfterCompletion ==
  /\ concurrent = 1
  /\ okCount[0] = 1
  /\ \E c \in CallIds : tasks = {<<c, 1>>} /\ callers[c].pending = <<0, 1>>

\* ---- pause and admission ---------------------------------------------------------
\* the step starts a chunk upload request
RequestStarted == \E i \in ChunkIdx : sent'[i] > sent[i]

\* C29: no chunk upload request is started while isPaused is true.
C29_NoRequestWhilePaused ==
  [][RequestStarted => ~isPaused /\ ~isPaused']_vars

\* a paused pass has left its admission loop with a chunk it never admitted
C29_PausedPassLeftChunk ==
  /\ isPaused
  /\ \E c \in CallIds :
       /\ callers[c].pc \in {"settle", "ret", "failed"}
       /\ callers[c].pos <= Len(callers[c].pending)
       /\ sent[callers[c].pending[callers[c].pos]] = 0

\* ---- termination of a pass -------------------------------------------------------
\* C30: every call of uploadChunksConcurrently returns or throws in the end,
\* provided every chunk request settles: when all chunks succeed, when a chunk
\* fails and when pauseUpload is called at any point of the pass.
C30_PassEnds ==
  \A c \in CallIds : Admitting(c) ~> ~Admitting(c)

\* a pass has returned after pauseUpload aborted its request
C30_PausedPassReturned ==
  /\ isPaused
  /\ \E c \in CallIds :
       /\ callers[c].kind = "start" /\ callers[c].pc = "failed" /\ callers[c].err = "paused"
       /\ callers[c].pos > 1
  /\ \E i \in ChunkIdx : sent[i] > okCount[i] + failCount[i]

\* ---- resume to completion ---------------------------------------------------------
\* C31: after pauseUpload followed by resumeUpload, when every later request
\* succeeds and the task is not paused again, the task is completed in the
\* end: isCompleted is true, every chunk is uploaded and isUploading is false.
C31_ResumedUploadCompletes ==
  (~isPaused /\ \E c \in CallIds : callers[c].kind = "resume")
    ~> (isPaused \/ (isCompleted /\ AllChunksUploaded /\ ~isUploading))

\* ---- executingChunks ---------------------------------------------------------------
\* C32: a chunk index is in executingChunks exactly while an upload task of
\* some pass is active for that chunk, and a pass never admits a chunk whose
\* index is in the set.
C32_ExecutingChunksAreActiveTasks ==
  /\ [](\A i \in ChunkIdx :
          i \in executingChunks <=> \E c \in CallIds : i \in callers[c].executing)
  /\ [][\A c \in CallIds : \A i \in ChunkIdx :
          (i \in callers'[c].executing /\ i \notin callers[c].executing) =>
            i \notin executingChunks]_vars

C34_TimeoutEndsRequest ==
  /\ \A c \in CallIds : \A i \in ChunkIdx :
       (<<c, i>> \in tasks) ~> (<<c, i>> \notin tasks)
  /\ \A c \in CallIds : Admitting(c) ~> ~Admitting(c)

\* ---- speed samples ------------------------------------------------------------------
\* C37: speedHistory never holds more than 10 samples; after each recorded
\* sample it holds the most recent samples in arrival order, speedInfo.current
\* is the last of them, speedInfo.peak is at least every sample recorded since
\* the last reset, and two recorded samples are at least 1 second apart.
C37_HistoryBoundedAndOrdered ==
  /\ [](LET h == networkStats.speedHistory IN
          /\ Len(h) <= 10
          /\ h # <<>> => networkStats.current = h[Len(h)]
          /\ \A k \in 1 .. Len(h) : networkStats.peak >= h[k])
  /\ [][LET h == networkStats.speedHistory
            g == networkStats'.speedHistory
        IN (g # h /\ g # <<>>) =>
             /\ networkStats'.lastMeasureTime >= networkStats.lastMeasureTime + 1
             /\ networkStats'.peak >= networkStats.peak
             /\ IF Len(h) < 10
                  THEN Len(g) = Len(h) + 1 /\ \A k \in 1 .. Len(h) : g[k] = h[k]
                  ELSE Len(g) = 10 /\ \A k \in 1 .. 9 : g[k] = h[k + 1]]_vars

\* the eleventh sample has pushed the first out of the history
C37_EleventhSampleRecorded ==
  /\ Len(networkStats.speedHistory) = 10
  /\ networkStats.lastMeasureTime - networkStats.startTime = 11
  /\ networkStats.speedHistory[1] = -1 /\ networkStats.speedHistory[10] = 1
  /\ networkStats.peak = 1

\* C35: every byte count the progress listener hands to the speed tracker is
\* the sum over all chunks of the bytes known uploaded (the size of an uploaded
\* chunk, the acknowledged bytes of a chunk in flight), so the counts never
\* decrease and no speed sample is negative.
C35_TrackerGetsSumOverChunks ==
  /\ [](\A k \in 1 .. Len(networkStats.speedHistory) : networkStats.speedHistory[k] >= 0)
  /\ [][networkStats'.lastMeasureTime # networkStats.lastMeasureTime =>
         LET size(k) == chunks'[k].end - chunks'[k].start
             Known[k \in 0 .. Len(chunks')] ==
               IF k = 0 THEN 0
               ELSE Known[k - 1] + (IF chunks'[k].uploaded THEN size(k)
                                    ELSE (chunks'[k].progress * size(k)) \div 100)
         IN /\ networkStats'.lastMeasureBytes = Known[Len(chunks')]
            /\ networkStats'.lastMeasureBytes >= networkStats.lastMeasureBytes]_vars

\* C36: startUpload resets the speed state (current, average and peak zero,
\* empty history, startTime zero) before any sample of the new upload, and no
\* progress event of a request started before that startUpload records a sample
\* of the new upload: a sample is recorded only while a request of the latest
\* startUpload or of a later resumeUpload is in flight.
C36_OldRequestsKeptOut ==
  /\ [][(ncalls' > ncalls /\ callers'[ncalls'].kind = "start") =>
          networkStats' = [NoStats EXCEPT !.totalBytes = currentFile]]_vars
  /\ [][Len(networkStats'.speedHistory) > Len(networkStats.speedHistory) =>
          \E t \in tasks : \A c \in CallIds : callers[c].kind = "start" => t[1] >= c]_vars

\* ---- failed reads ------------------------------------------------------------------
\* C38: when the read of a window fails during the fingerprint computation,
\* startCalculateHash rejects with isCalculatingHash false and fileHash and
\* the hash progress as they were, and from then on that call reads no further
\* window and sends no check request.
C38_ReadFailureEndsComputation ==
  [][\A c \in CallIds :
       /\ (callers'[c].err = "read" /\ callers[c].err # "read") =>
            /\ callers[c].pc = "hashing" /\ callers'[c].pc = "failed"
            /\ callers'[c].pos = callers[c].pos
            /\ ~isCalculatingHash'
            /\ fileHash' = fileHash
            /\ hashProgress' = hashProgress
            /\ isCheckingUpload' = isCheckingUpload
       /\ callers[c].err = "read" => callers'[c] = callers[c]]_vars

\* the first of two windows could not be read: no fingerprint, no check
C38_FirstWindowUnread ==
  /\ \E c \in CallIds : callers[c].err = "read" /\ callers[c].pos = 2
  /\ ~isCalculatingHash /\ ~fileHash /\ ~isCheckingUpload
  /\ hashProgress.loaded = 0
  /\ \A c \in CallIds : callers[c].pc \in {"none", "failed"}

\* ---- chunk progress ----------------------------------------------------------------
\* C39: in every reachable state each chunk marked uploaded has progress 100,
\* also after progress events, pause, resume and cancel in any order.
C39_UploadedChunkAtFullProgress ==
  \A k \in 1 .. Len(chunks) : chunks[k].uploaded => chunks[k].progress = 100

\* C40: once startUpload has been called (and until reset), no step lowers
\* uploadProgress.loaded or leaves it above uploadProgress.total, across
\* completions, failures, pause, resume and a repeated startUpload.
C40_LoadedMonotoneWithinTotal ==
  [][(\E c \in CallIds : callers[c].kind = "start") =>
       /\ uploadProgress'.loaded >= uploadProgress.loaded
       /\ uploadProgress'.loaded <= uploadProgress'.total]_vars

====
